---- MODULE Spec2Model ----
(***************************************************************************)
(* Model of the circuit editor's wire canonicalizer (wireNormalize.ts),    *)
(* Manhattan routing (geom.ts), the move/reroute session manager           *)
(* (moveAndReroute.ts) and the editor events that drive it (bindInput.ts,  *)
(* app.ts).                                                                *)
(***************************************************************************)
EXTENDS Integers, Sequences, FiniteSets, TLC

\* ---------------------------------------------------------------------------
\* Points and small helpers
\* ---------------------------------------------------------------------------

Pt(px, py) == [x |-> px, y |-> py]

Null == [kind |-> "null"]

Min2(m, n) == IF m <= n THEN m ELSE n
Max2(m, n) == IF m >= n THEN m ELSE n
Abs(n) == IF n < 0 THEN -n ELSE n

\* Coordinate of p that varies along a segment of the given axis.
along(p, axis) == IF axis = "v" THEN p.y ELSE p.x

RECURSIVE Flatten(_)
Flatten(ss) == IF ss = <<>> THEN <<>> ELSE Head(ss) \o Flatten(Tail(ss))

RECURSIVE Distinct(_)
\* First occurrences of a sequence's values, in order (Map insertion order).
Distinct(s) ==
  IF s = <<>> THEN <<>>
  ELSE LET init == Distinct(SubSeq(s, 1, Len(s) - 1))
           last == s[Len(s)]
       IN IF \E i \in DOMAIN init : init[i] = last THEN init ELSE Append(init, last)

Range(s) == {s[i] : i \in DOMAIN s}

RECURSIVE FreshFrom(_, _, _)
FreshFrom(n, used, c) ==
  IF n = 0 THEN <<>>
  ELSE IF c \in used THEN FreshFrom(n, used, c + 1)
       ELSE <<c>> \o FreshFrom(n - 1, used, c + 1)

\* n identifiers that collide with none of the identifiers in use.
newIds(n, used) == FreshFrom(n, used, 1)

\* ---------------------------------------------------------------------------
\* geom.ts
\* ---------------------------------------------------------------------------

\* rotatePoint that turns by 270 as it turns by 90.
rotatePointOneWay(p, rot) ==
  CASE rot = 0 -> Pt(p.x, p.y)
    [] rot = 90 -> Pt(-p.y, p.x)
    [] rot = 180 -> Pt(-p.x, -p.y)
    [] rot = 270 -> Pt(-p.y, p.x)

rotatePoint(p, rot) ==
  CASE rot = 0 -> Pt(p.x, p.y)
    [] rot = 90 -> Pt(-p.y, p.x)
    [] rot = 180 -> Pt(-p.x, -p.y)
    [] rot = 270 -> Pt(p.y, -p.x)

\* manhattanSegments with the vertical leg first.
manhattanSegmentsVerticalFirst(a, b) ==
  IF a.x = b.x \/ a.y = b.y
  THEN << [a |-> a, b |-> b] >>
  ELSE LET mid == Pt(a.x, b.y)
       IN << [a |-> a, b |-> mid], [a |-> mid, b |-> b] >>

manhattanSegments(a, b) ==
  IF a.x = b.x \/ a.y = b.y
  THEN << [a |-> a, b |-> b] >>
  ELSE LET mid == Pt(b.x, a.y)
       IN << [a |-> a, b |-> mid], [a |-> mid, b |-> b] >>

\* manhattanFromFixed without the bend: one segment straight to the target.
manhattanFromFixedDirect(fixed, target, incomingAxis) ==
  << [a |-> fixed, b |-> target] >>

\* manhattanFromFixed with the two bend choices exchanged.
manhattanFromFixedAlongAxis(fixed, target, incomingAxis) ==
  IF fixed.x = target.x \/ fixed.y = target.y
  THEN << [a |-> fixed, b |-> target] >>
  ELSE LET mid == IF incomingAxis = "h"
                  THEN Pt(target.x, fixed.y)
                  ELSE Pt(fixed.x, target.y)
       IN << [a |-> fixed, b |-> mid], [a |-> mid, b |-> target] >>

manhattanFromFixed(fixed, target, incomingAxis) ==
  IF fixed.x = target.x \/ fixed.y = target.y
  THEN << [a |-> fixed, b |-> target] >>
  ELSE LET mid == IF incomingAxis = "h"
                  THEN Pt(fixed.x, target.y)
                  ELSE Pt(target.x, fixed.y)
       IN << [a |-> fixed, b |-> mid], [a |-> mid, b |-> target] >>

\* ---------------------------------------------------------------------------
\* wireNormalize.ts
\* ---------------------------------------------------------------------------

samePoint(p, q) == p.x = q.x /\ p.y = q.y

segmentKey(a, b) ==
  IF a.x = b.x
  THEN [axis |-> "V", c |-> a.x, lo |-> Min2(a.y, b.y), hi |-> Max2(a.y, b.y)]
  ELSE [axis |-> "H", c |-> a.y, lo |-> Min2(a.x, b.x), hi |-> Max2(a.x, b.x)]

\* normalizeSegment throws on a segment whose endpoints differ on both axes.
nonManhattan(a, b) == a.x # b.x /\ a.y # b.y

\* normalizeSegment that keeps the ends in the order given.
normalizeSegmentAsGiven(a, b) ==
  IF nonManhattan(a, b) THEN [a |-> a, b |-> b, axis |-> "throw"]
  ELSE IF a.x = b.x THEN [a |-> a, b |-> b, axis |-> "v"]
  ELSE [a |-> a, b |-> b, axis |-> "h"]

normalizeSegment(a, b) ==
  IF nonManhattan(a, b) THEN [a |-> a, b |-> b, axis |-> "throw"]
  ELSE IF a.x = b.x
       THEN (IF a.y <= b.y THEN [a |-> a, b |-> b, axis |-> "v"]
                           ELSE [a |-> b, b |-> a, axis |-> "v"])
       ELSE (IF a.x <= b.x THEN [a |-> a, b |-> b, axis |-> "h"]
                           ELSE [a |-> b, b |-> a, axis |-> "h"])

pointOnSegment(p, s) ==
  IF s.axis = "v"
  THEN p.x = s.a.x /\ p.y >= s.a.y /\ p.y <= s.b.y
  ELSE p.y = s.a.y /\ p.x >= s.a.x /\ p.x <= s.b.x

RECURSIVE sortAlongAxis(_, _)
\* The points of a set, ascending along the axis (the points handed to it lie
\* on one line and are distinct, so the order is total).
sortAlongAxis(pts, axis) ==
  IF pts = {} THEN <<>>
  ELSE LET m == CHOOSE p \in pts : \A q \in pts :
                  along(p, axis) < along(q, axis)
                  \/ (along(p, axis) = along(q, axis)
                      /\ (p.x < q.x \/ (p.x = q.x /\ p.y <= q.y)))
       IN <<m>> \o sortAlongAxis(pts \ {m}, axis)

RECURSIVE insertByStart(_, _, _)
insertByStart(sorted, s, axis) ==
  IF sorted = <<>> THEN <<s>>
  ELSE IF along(Head(sorted).a, axis) <= along(s.a, axis)
       THEN <<Head(sorted)>> \o insertByStart(Tail(sorted), s, axis)
       ELSE <<s>> \o sorted

\* sortByStart that leaves the group in the order given.
sortByStartKeepsOrder(segs, axis) == segs

RECURSIVE sortByStart(_, _)
\* Array.prototype.sort with comparator s1.a - s2.a: a stable sort.
sortByStart(segs, axis) ==
  IF segs = <<>> THEN <<>>
  ELSE insertByStart(sortByStart(SubSeq(segs, 1, Len(segs) - 1), axis),
                     segs[Len(segs)], axis)

degenerate(a, b) == a.x = b.x /\ a.y = b.y

RECURSIVE sweepRunsKeepsStart(_, _, _, _, _)
\* sweepRuns with the start of the run not reset after a gap.
sweepRunsKeepsStart(sorted, i, curA, curB, axis) ==
  LET commit == IF degenerate(curA, curB) THEN <<>>
                ELSE << [a |-> curA, b |-> curB, axis |-> axis] >>
  IN IF i > Len(sorted) THEN commit
     ELSE LET s == sorted[i] IN
          IF along(s.a, axis) <= along(curB, axis)
          THEN sweepRunsKeepsStart(sorted, i + 1, curA,
                         IF along(s.b, axis) > along(curB, axis) THEN s.b ELSE curB,
                         axis)
          ELSE commit \o sweepRunsKeepsStart(sorted, i + 1, curA, s.b, axis)

RECURSIVE sweepRunsSplitsTouching(_, _, _, _, _)
\* sweepRuns that merges overlapping segments only, not touching ones.
sweepRunsSplitsTouching(sorted, i, curA, curB, axis) ==
  LET commit == IF degenerate(curA, curB) THEN <<>>
                ELSE << [a |-> curA, b |-> curB, axis |-> axis] >>
  IN IF i > Len(sorted) THEN commit
     ELSE LET s == sorted[i] IN
          IF along(s.a, axis) < along(curB, axis)
          THEN sweepRunsSplitsTouching(sorted, i + 1, curA,
                         IF along(s.b, axis) > along(curB, axis) THEN s.b ELSE curB,
                         axis)
          ELSE commit \o sweepRunsSplitsTouching(sorted, i + 1, s.a, s.b, axis)

RECURSIVE sweepRuns(_, _, _, _, _)
\* The interval-merge sweep over one sorted group.
sweepRuns(sorted, i, curA, curB, axis) ==
  LET commit == IF degenerate(curA, curB) THEN <<>>
                ELSE << [a |-> curA, b |-> curB, axis |-> axis] >>
  IN IF i > Len(sorted) THEN commit
     ELSE LET s == sorted[i] IN
          IF along(s.a, axis) <= along(curB, axis)
          THEN sweepRuns(sorted, i + 1, curA,
                         IF along(s.b, axis) > along(curB, axis) THEN s.b ELSE curB,
                         axis)
          ELSE IF along(s.a, axis) = along(curB, axis)
               THEN sweepRuns(sorted, i + 1, curA, s.b, axis)
               ELSE commit \o sweepRuns(sorted, i + 1, s.a, s.b, axis)

mergeGroup(group, axis) ==
  LET sorted == sortByStart([i \in DOMAIN group |-> normalizeSegment(group[i].a, group[i].b)], axis)
  IN sweepRuns(sorted, 2, sorted[1].a, sorted[1].b, axis)

mergeCollinearRuns(segs) ==
  LET hs == SelectSeq(segs, LAMBDA s : s.axis = "h")
      vs == SelectSeq(segs, LAMBDA s : s.axis # "h")
      hKeys == Distinct([i \in DOMAIN hs |-> hs[i].a.y])
      vKeys == Distinct([i \in DOMAIN vs |-> vs[i].a.x])
  IN Flatten([k \in DOMAIN hKeys |->
               mergeGroup(SelectSeq(hs, LAMBDA s : s.a.y = hKeys[k]), "h")])
     \o Flatten([k \in DOMAIN vKeys |->
               mergeGroup(SelectSeq(vs, LAMBDA s : s.a.x = vKeys[k]), "v")])

\* normalizeThrows that validates the first segment only.
normalizeThrowsOnFirstOnly(wires) ==
  wires # <<>> /\ nonManhattan(wires[1].a, wires[1].b)

\* normalizeAndSegmentWires throws when some input segment is not axis-aligned.
normalizeThrows(wires) ==
  wires # <<>> /\ \E i \in DOMAIN wires : nonManhattan(wires[i].a, wires[i].b)

\* junctionsOf without the perpendicular intersections of step (b).
junctionsOfNoCrossings(runs, extraJunctionPoints) ==
  UNION {{runs[i].a, runs[i].b} : i \in DOMAIN runs} \cup Range(extraJunctionPoints)

\* junctionsOf without the extra junction points of step (a).
junctionsOfNoExtras(runs, extraJunctionPoints) ==
  LET ends == UNION {{runs[i].a, runs[i].b} : i \in DOMAIN runs}
      verticals == SelectSeq(runs, LAMBDA r : r.axis = "v")
      horizontals == SelectSeq(runs, LAMBDA r : r.axis = "h")
  IN ends \cup
     {Pt(verticals[i].a.x, horizontals[j].a.y) :
        <<i, j>> \in {<<i, j>> \in (DOMAIN verticals) \X (DOMAIN horizontals) :
           LET v == verticals[i]
               h == horizontals[j]
           IN v.a.x >= h.a.x /\ v.a.x <= h.b.x /\ h.a.y >= v.a.y /\ h.a.y <= v.b.y}}

\* The junction set of a list of runs and the extra junction points.
junctionsOf(runs, extraJunctionPoints) ==
  LET ends == UNION {{runs[i].a, runs[i].b} : i \in DOMAIN runs}
      verticals == SelectSeq(runs, LAMBDA r : r.axis = "v")
      horizontals == SelectSeq(runs, LAMBDA r : r.axis = "h")
      crossings ==
        {Pt(verticals[i].a.x, horizontals[j].a.y) :
           <<i, j>> \in {<<i, j>> \in (DOMAIN verticals) \X (DOMAIN horizontals) :
              LET v == verticals[i]
                  h == horizontals[j]
              IN v.a.x >= h.a.x /\ v.a.x <= h.b.x /\ h.a.y >= v.a.y /\ h.a.y <= v.b.y}}
      endpoints == ends \cup Range(extraJunctionPoints) \cup crossings
  IN endpoints \cup {p \in endpoints : \E i \in DOMAIN runs : pointOnSegment(p, runs[i])}

\* splitRun whose loop stops one junction early: the last piece is left out.
splitRunStopsEarly(r, junctions) ==
  LET sorted == sortAlongAxis({p \in junctions : pointOnSegment(p, r)}, r.axis)
      pairs == [i \in 1..(Len(sorted) - 2) |-> normalizeSegment(sorted[i], sorted[i + 1])]
  IN SelectSeq(pairs, LAMBDA s : ~degenerate(s.a, s.b))

\* The pieces of one run between consecutive junctions that lie on it.
splitRun(r, junctions) ==
  LET sorted == sortAlongAxis({p \in junctions : pointOnSegment(p, r)}, r.axis)
      pairs == [i \in 1..(Len(sorted) - 1) |-> normalizeSegment(sorted[i], sorted[i + 1])]
  IN SelectSeq(pairs, LAMBDA s : ~degenerate(s.a, s.b))

\* Map keyed by segmentKey: first insertion fixes the place, last the value.
dedupeByKey(pieces) ==
  LET keys == [i \in DOMAIN pieces |-> segmentKey(pieces[i].a, pieces[i].b)]
      ks == Distinct(keys)
      lastOf(k) == CHOOSE i \in DOMAIN pieces :
                     keys[i] = k /\ \A j \in DOMAIN pieces : keys[j] = k => j <= i
  IN [n \in DOMAIN ks |-> pieces[lastOf(ks[n])]]

\* normalizeAndSegmentWires that gives a piece the id of an input wire of the
\* same geometry, and a new id only to the other pieces.
normalizeKeepingIds(wires, extraJunctionPoints, used) ==
  IF wires = <<>> THEN <<>>
  ELSE
    LET base == SelectSeq([i \in DOMAIN wires |-> normalizeSegment(wires[i].a, wires[i].b)],
                          LAMBDA s : ~degenerate(s.a, s.b))
        runs == mergeCollinearRuns(base)
        junctions == junctionsOf(runs, extraJunctionPoints)
        pieces == Flatten([i \in DOMAIN runs |-> splitRun(runs[i], junctions)])
        final == SelectSeq(dedupeByKey(pieces), LAMBDA s : ~degenerate(s.a, s.b))
        ids == newIds(Len(final), used)
        same(i) == {j \in DOMAIN wires :
                      segmentKey(wires[j].a, wires[j].b) = segmentKey(final[i].a, final[i].b)}
    IN [i \in DOMAIN final |->
          [id |-> IF same(i) # {} THEN wires[CHOOSE j \in same(i) : TRUE].id ELSE ids[i],
           a |-> final[i].a, b |-> final[i].b]]

normalizeAndSegmentWires(wires, extraJunctionPoints, used) ==
  IF wires = <<>> THEN <<>>
  ELSE
    LET base == SelectSeq([i \in DOMAIN wires |-> normalizeSegment(wires[i].a, wires[i].b)],
                          LAMBDA s : ~degenerate(s.a, s.b))
        runs == mergeCollinearRuns(base)
        junctions == junctionsOf(runs, extraJunctionPoints)
        pieces == Flatten([i \in DOMAIN runs |-> splitRun(runs[i], junctions)])
        final == SelectSeq(dedupeByKey(pieces), LAMBDA s : ~degenerate(s.a, s.b))
        ids == newIds(Len(final), used)
    IN [i \in DOMAIN final |-> [id |-> ids[i], a |-> final[i].a, b |-> final[i].b]]

\* A call of normalizeAndSegmentWires as its caller sees it: the exception of
\* normalizeSegment leaves the .map of lines 228-230 before anything is
\* returned, otherwise the call returns the new list.
normalizeOrThrow(wires, extraJunctionPoints, used) ==
  IF normalizeThrows(wires) THEN [threw |-> TRUE, wires |-> <<>>]
  ELSE [threw |-> FALSE, wires |-> normalizeAndSegmentWires(wires, extraJunctionPoints, used)]

pointStrictlyBetweenPorts(p, a, b) ==
  IF a.x = b.x
  THEN p.x = a.x /\ p.y > Min2(a.y, b.y) /\ p.y < Max2(a.y, b.y)
  ELSE IF a.y = b.y
       THEN p.y = a.y /\ p.x > Min2(a.x, b.x) /\ p.x < Max2(a.x, b.x)
       ELSE FALSE

\* spliceOutBetweenPorts without the check for junctions between the ports.
spliceThroughJunctions(wires, pair) ==
  IF pair.a.x = pair.b.x
  THEN SelectSeq(wires, LAMBDA w :
         \/ w.a.x # w.b.x
         \/ w.a.x # pair.a.x
         \/ ~(/\ Min2(w.a.y, w.b.y) >= Min2(pair.a.y, pair.b.y)
              /\ Max2(w.a.y, w.b.y) <= Max2(pair.a.y, pair.b.y)))
  ELSE IF pair.a.y = pair.b.y
       THEN SelectSeq(wires, LAMBDA w :
              \/ w.a.y # w.b.y
              \/ w.a.y # pair.a.y
              \/ ~(/\ Min2(w.a.x, w.b.x) >= Min2(pair.a.x, pair.b.x)
                   /\ Max2(w.a.x, w.b.x) <= Max2(pair.a.x, pair.b.x)))
       ELSE wires

\* spliceOutBetweenPorts deleting only segments that stay clear of the ports.
spliceOpenSpan(wires, pair) ==
  LET blocked == \E i \in DOMAIN wires : \E ep \in {wires[i].a, wires[i].b} :
                   /\ ~(samePoint(ep, pair.a) \/ samePoint(ep, pair.b))
                   /\ pointStrictlyBetweenPorts(ep, pair.a, pair.b)
  IN IF blocked THEN wires
     ELSE IF pair.a.x = pair.b.x
          THEN SelectSeq(wires, LAMBDA w :
                 \/ w.a.x # w.b.x
                 \/ w.a.x # pair.a.x
                 \/ ~(/\ Min2(w.a.y, w.b.y) > Min2(pair.a.y, pair.b.y)
                      /\ Max2(w.a.y, w.b.y) < Max2(pair.a.y, pair.b.y)))
          ELSE IF pair.a.y = pair.b.y
               THEN SelectSeq(wires, LAMBDA w :
                      \/ w.a.y # w.b.y
                      \/ w.a.y # pair.a.y
                      \/ ~(/\ Min2(w.a.x, w.b.x) > Min2(pair.a.x, pair.b.x)
                           /\ Max2(w.a.x, w.b.x) < Max2(pair.a.x, pair.b.x)))
               ELSE wires

\* spliceOutBetweenPorts deleting every segment on the line of the ports,
\* inside their span or not.
spliceOutWholeLine(wires, pair) ==
  LET blocked == \E i \in DOMAIN wires : \E ep \in {wires[i].a, wires[i].b} :
                   /\ ~(samePoint(ep, pair.a) \/ samePoint(ep, pair.b))
                   /\ pointStrictlyBetweenPorts(ep, pair.a, pair.b)
  IN IF blocked THEN wires
     ELSE IF pair.a.x = pair.b.x
          THEN SelectSeq(wires, LAMBDA w : w.a.x # w.b.x \/ w.a.x # pair.a.x)
          ELSE IF pair.a.y = pair.b.y
               THEN SelectSeq(wires, LAMBDA w : w.a.y # w.b.y \/ w.a.y # pair.a.y)
               ELSE wires

spliceOutBetweenPorts(wires, pair) ==
  LET p1 == pair.a
      p2 == pair.b
      isVertical == p1.x = p2.x
      isHorizontal == p1.y = p2.y
      blocked == \E i \in DOMAIN wires : \E ep \in {wires[i].a, wires[i].b} :
                   /\ ~(samePoint(ep, p1) \/ samePoint(ep, p2))
                   /\ pointStrictlyBetweenPorts(ep, p1, p2)
  IN IF ~isVertical /\ ~isHorizontal THEN wires
     ELSE IF blocked THEN wires
     ELSE IF isVertical
          THEN SelectSeq(wires, LAMBDA w :
                 \/ w.a.x # w.b.x
                 \/ w.a.x # p1.x
                 \/ ~(/\ Min2(w.a.y, w.b.y) >= Min2(p1.y, p2.y)
                      /\ Max2(w.a.y, w.b.y) <= Max2(p1.y, p2.y)))
          ELSE SelectSeq(wires, LAMBDA w :
                 \/ w.a.y # w.b.y
                 \/ w.a.y # p1.y
                 \/ ~(/\ Min2(w.a.x, w.b.x) >= Min2(p1.x, p2.x)
                      /\ Max2(w.a.x, w.b.x) <= Max2(p1.x, p2.x)))

\* ---------------------------------------------------------------------------
\* componentTypes/resistorType.ts (the first registered component type)
\* ---------------------------------------------------------------------------

ResistorBodyW == 70
ResistorBodyH == 28
ResistorLead == 40

\* getType is an argument of normalizeAndSpliceWires: besides the registered
\* two-port type it is applied with a type of one port ("probe") and a type of
\* three ports ("tee"), which the editor never registers.
ports(typeId) ==
  LET portOffset == ResistorLead + ResistorBodyW \div 2
  IN CASE typeId = "probe" -> << Pt(-portOffset, 0) >>
       [] typeId = "tee" -> << Pt(-portOffset, 0), Pt(portOffset, 0), Pt(0, portOffset) >>
       [] OTHER -> << Pt(-portOffset, 0), Pt(portOffset, 0) >>

bbox(typeId) ==
  LET halfW == ResistorLead + ResistorBodyW \div 2
      halfH == Max2(ResistorBodyH \div 2, 2)
  IN [x |-> -halfW, y |-> -halfH, w |-> halfW * 2, h |-> halfH * 2]

\* The world positions of a component's ports, in port order.
portWorldPositions(inst) ==
  LET ps == ports(inst.typeId)
  IN [i \in DOMAIN ps |->
        LET r == rotatePoint(ps[i], inst.rotation)
        IN Pt(inst.pos.x + r.x, inst.pos.y + r.y)]

\* getTwoPortPairs that pairs the first two ports of every component with two
\* ports or more.
getPairsOfFirstTwoPorts(components) ==
  LET two == SelectSeq(components, LAMBDA inst : Len(portWorldPositions(inst)) >= 2)
  IN [i \in DOMAIN two |->
        [a |-> portWorldPositions(two[i])[1], b |-> portWorldPositions(two[i])[2]]]

getTwoPortPairs(components) ==
  LET two == SelectSeq(components, LAMBDA inst : Len(portWorldPositions(inst)) = 2)
  IN [i \in DOMAIN two |->
        [a |-> portWorldPositions(two[i])[1], b |-> portWorldPositions(two[i])[2]]]

\* The splice loop leaving after the first pair.
spliceFirstPairOnly(out, pairs, i) ==
  IF i > Len(pairs) THEN out ELSE spliceOutBetweenPorts(out, pairs[i])

RECURSIVE spliceAll(_, _, _)
spliceAll(out, pairs, i) ==
  IF i > Len(pairs) THEN out
  ELSE spliceAll(spliceOutBetweenPorts(out, pairs[i]), pairs, i + 1)

\* normalizeAndSpliceWires that does not pass the ports as junction points.
normalizeAndSpliceWithoutPortCuts(wires, components, used) ==
  IF wires = <<>> THEN <<>>
  ELSE spliceAll(normalizeAndSegmentWires(wires, <<>>, used), getTwoPortPairs(components), 1)

normalizeAndSpliceWires(wires, components, used) ==
  IF wires = <<>> THEN <<>>
  ELSE LET pairs == getTwoPortPairs(components)
           portPoints == Flatten([i \in DOMAIN pairs |-> << pairs[i].a, pairs[i].b >>])
       IN spliceAll(normalizeAndSegmentWires(wires, portPoints, used), pairs, 1)

\* ---------------------------------------------------------------------------
\* grid.ts, schematicSvg.ts, hitTest.ts
\* ---------------------------------------------------------------------------

GridSize == 25
WorldWidth == 1920
WorldHeight == 1080
HitTol == 6

\* Math.round(v / GridSize) * GridSize; Math.round rounds halves up.
snapCoord(v) == ((2 * v + GridSize) \div (2 * GridSize)) * GridSize

snap(p) == Pt(snapCoord(p.x), snapCoord(p.y))

isInsideCanvas(p) == p.x >= 0 /\ p.x <= WorldWidth /\ p.y >= 0 /\ p.y <= WorldHeight

bboxToWorldAabb(inst, local) ==
  LET corners == << Pt(local.x, local.y), Pt(local.x + local.w, local.y),
                    Pt(local.x + local.w, local.y + local.h), Pt(local.x, local.y + local.h) >>
      world == [i \in 1..4 |->
                  LET r == rotatePoint(corners[i], inst.rotation)
                  IN Pt(inst.pos.x + r.x, inst.pos.y + r.y)]
      minX == Min2(Min2(Min2(world[1].x, world[2].x), world[3].x), world[4].x)
      maxX == Max2(Max2(Max2(world[1].x, world[2].x), world[3].x), world[4].x)
      minY == Min2(Min2(Min2(world[1].y, world[2].y), world[3].y), world[4].y)
      maxY == Max2(Max2(Max2(world[1].y, world[2].y), world[3].y), world[4].y)
  IN [x |-> minX, y |-> minY, w |-> maxX - minX, h |-> maxY - minY]

pointInAabb(p, a) == p.x >= a.x /\ p.x <= a.x + a.w /\ p.y >= a.y /\ p.y <= a.y + a.h

pointHitsWire(p, w, tol) ==
  IF w.a.x = w.b.x
  THEN /\ Abs(p.x - w.a.x) <= tol
       /\ p.y >= Min2(w.a.y, w.b.y) - tol /\ p.y <= Max2(w.a.y, w.b.y) + tol
  ELSE IF w.a.y = w.b.y
       THEN /\ Abs(p.y - w.a.y) <= tol
            /\ p.x >= Min2(w.a.x, w.b.x) - tol /\ p.x <= Max2(w.a.x, w.b.x) + tol
       ELSE FALSE

\* Components first, topmost (last) first; then wires, last first.
hitTest(comps, ws, p) ==
  LET hc == {i \in DOMAIN comps : pointInAabb(p, bboxToWorldAabb(comps[i], bbox(comps[i].typeId)))}
      hw == {i \in DOMAIN ws : pointHitsWire(p, ws[i], HitTol)}
      top(S) == CHOOSE i \in S : \A j \in S : j <= i
  IN IF hc # {} THEN [kind |-> "component", id |-> comps[top(hc)].id]
     ELSE IF hw # {} THEN [kind |-> "wire", id |-> ws[top(hw)].id]
     ELSE Null

\* Geometries (axis, constant, min, max) of a wire list, ids ignored.
Geo(ws) == {segmentKey(ws[i].a, ws[i].b) : i \in DOMAIN ws}

Ids(ws) == {ws[i].id : i \in DOMAIN ws}

\* ---------------------------------------------------------------------------
\* moveAndReroute.ts: the reroute session manager
\*
\* The operators below take and return a record S holding the editor state
\* (components, wires, selection), the session manager's closure state
\* (rerouteOwnerId, rerouteAttachments, dragWirePreview, moveDrag) and three
\* history fields that only record what ran: commit (the handler's call of
\* commitReroutePreview, when a session had an owner or a preview), begin (its
\* call of beginRerouteForSelectedComponent) and sess (the session under way).
\* ---------------------------------------------------------------------------

\* The null owner / null id. Wire ids are positive, component ids negative.
NoId == 0

NoDrag == [id |-> NoId, offset |-> Pt(0, 0)]

NoCommit == [called |-> FALSE]

NoBegin == [called |-> FALSE]

NoSession == [active |-> FALSE]

hasComponent(comps, id) == \E i \in DOMAIN comps : comps[i].id = id

\* components.find((c) => c.id === id), for an id that is present.
findComponent(comps, id) ==
  comps[CHOOSE i \in DOMAIN comps : comps[i].id = id /\ \A j \in DOMAIN comps : comps[j].id = id => i <= j]

indexOfComponent(comps, id) == CHOOSE i \in DOMAIN comps : comps[i].id = id

isDegenerate(s) == s.a.x = s.b.x /\ s.a.y = s.b.y

\* rebuildReroutePreview routing to the component's position, port offset dropped.
rebuildPreviewWithoutOffset(inst, attachments) ==
  Flatten([k \in DOMAIN attachments |->
             manhattanFromFixed(attachments[k].fixed, inst.pos, attachments[k].incomingAxis)])

rebuildReroutePreview(inst, attachments) ==
  Flatten([k \in DOMAIN attachments |->
             manhattanFromFixed(attachments[k].fixed,
                                Pt(inst.pos.x + attachments[k].portOffset.x,
                                   inst.pos.y + attachments[k].portOffset.y),
                                attachments[k].incomingAxis)])

RECURSIVE detachAtPortFixedOnPort(_, _, _, _, _)
\* detachAtPort that records the wire's end on the port as the fixed end.
detachAtPortFixedOnPort(ws, atts, port, inst, i) ==
  IF i < 1 THEN [wires |-> ws, attachments |-> atts]
  ELSE LET w == ws[i]
           isA == w.a.x = port.x /\ w.a.y = port.y
           isB == w.b.x = port.x /\ w.b.y = port.y
       IN IF ~isA /\ ~isB THEN detachAtPortFixedOnPort(ws, atts, port, inst, i - 1)
          ELSE detachAtPortFixedOnPort(
                 SubSeq(ws, 1, i - 1) \o SubSeq(ws, i + 1, Len(ws)),
                 Append(atts, [fixed |-> IF isA THEN w.a ELSE w.b,
                               incomingAxis |-> IF w.a.y = w.b.y THEN "h" ELSE "v",
                               portOffset |-> Pt(port.x - inst.pos.x, port.y - inst.pos.y)]),
                 port, inst, i - 1)

RECURSIVE detachAtPortFirstEndOnly(_, _, _, _, _)
\* detachAtPort that looks only at the first end (a) of each wire.
detachAtPortFirstEndOnly(ws, atts, port, inst, i) ==
  IF i < 1 THEN [wires |-> ws, attachments |-> atts]
  ELSE IF ~(ws[i].a.x = port.x /\ ws[i].a.y = port.y)
       THEN detachAtPortFirstEndOnly(ws, atts, port, inst, i - 1)
       ELSE detachAtPortFirstEndOnly(
              SubSeq(ws, 1, i - 1) \o SubSeq(ws, i + 1, Len(ws)),
              Append(atts, [fixed |-> ws[i].b,
                            incomingAxis |-> IF ws[i].a.y = ws[i].b.y THEN "h" ELSE "v",
                            portOffset |-> Pt(port.x - inst.pos.x, port.y - inst.pos.y)]),
              port, inst, i - 1)

RECURSIVE detachAtPort(_, _, _, _, _)
\* The inner loop of beginRerouteForSelectedComponent for one port: i runs from
\* the last wire down to the first; a wire with an end on the port is removed
\* and its attachment recorded. Returns the wires left and the attachments.
detachAtPort(ws, atts, port, inst, i) ==
  IF i < 1 THEN [wires |-> ws, attachments |-> atts]
  ELSE LET w == ws[i]
           isA == w.a.x = port.x /\ w.a.y = port.y
           isB == w.b.x = port.x /\ w.b.y = port.y
       IN IF ~isA /\ ~isB THEN detachAtPort(ws, atts, port, inst, i - 1)
          ELSE detachAtPort(
                 SubSeq(ws, 1, i - 1) \o SubSeq(ws, i + 1, Len(ws)),
                 Append(atts, [fixed |-> IF isA THEN w.b ELSE w.a,
                               incomingAxis |-> IF w.a.y = w.b.y THEN "h" ELSE "v",
                               portOffset |-> Pt(port.x - inst.pos.x, port.y - inst.pos.y)]),
                 port, inst, i - 1)

RECURSIVE detachAtPorts(_, _, _, _, _)
detachAtPorts(ws, atts, portList, inst, k) ==
  IF k > Len(portList) THEN [wires |-> ws, attachments |-> atts]
  ELSE LET r == detachAtPort(ws, atts, portList[k], inst, Len(ws))
       IN detachAtPorts(r.wires, r.attachments, portList, inst, k + 1)

\* state.wires = normalizeAndSpliceWires(state.wires, state.components, ...);
\* when the call throws the assignment does not happen.
normalizeWires(S) ==
  IF normalizeThrows(S.wires) THEN S ELSE
  [S EXCEPT !.wires = normalizeAndSpliceWires(S.wires, S.components, Ids(S.wires) \cup
                        (IF S.selection.kind = "wire" THEN {S.selection.id} ELSE {}))]

\* No wire of ws has an end on a port of inst (recorded in sess.free when a
\* session begins).
portsFree(ws, inst) ==
  \A i \in DOMAIN ws : {ws[i].a, ws[i].b} \cap Range(portWorldPositions(inst)) = {}

\* beginRerouteForSelectedComponent that resets the session before it looks
\* the component up.
beginRerouteResettingFirst(S, id) ==
  IF ~hasComponent(S.components, id)
  THEN [S EXCEPT !.rerouteOwnerId = id, !.rerouteAttachments = <<>>,
                 !.dragWirePreview = <<>>]
  ELSE LET inst == findComponent(S.components, id)
           r == detachAtPorts(S.wires, <<>>, portWorldPositions(inst), inst, 1)
       IN [S EXCEPT !.wires = r.wires,
                    !.rerouteOwnerId = id,
                    !.rerouteAttachments = r.attachments,
                    !.dragWirePreview = rebuildReroutePreview(inst, r.attachments),
                    !.begin = [called |-> TRUE, id |-> id, seen |-> S.wires,
                               previewBefore |-> S.dragWirePreview,
                               ownerBefore |-> S.rerouteOwnerId],
                    !.sess = [active |-> TRUE, id |-> id, startGeo |-> Geo(S.wires),
                              startPos |-> inst.pos, pure |-> TRUE, moved |-> FALSE,
                              free |-> portsFree(S.wires, inst),
                              startNormal |->
                                Geo(normalizeAndSpliceWires(S.wires, S.components, Ids(S.wires)))
                                  = Geo(S.wires)]]

beginRerouteForSelectedComponent(S, id) ==
  IF ~hasComponent(S.components, id) THEN S
  ELSE LET inst == findComponent(S.components, id)
           r == detachAtPorts(S.wires, <<>>, portWorldPositions(inst), inst, 1)
       IN [S EXCEPT !.wires = r.wires,
                    !.rerouteOwnerId = id,
                    !.rerouteAttachments = r.attachments,
                    !.dragWirePreview = rebuildReroutePreview(inst, r.attachments),
                    !.begin = [called |-> TRUE, id |-> id, seen |-> S.wires,
                               previewBefore |-> S.dragWirePreview,
                               ownerBefore |-> S.rerouteOwnerId],
                    !.sess = [active |-> TRUE, id |-> id, startGeo |-> Geo(S.wires),
                              startPos |-> inst.pos, pure |-> TRUE, moved |-> FALSE,
                              free |-> portsFree(S.wires, inst),
                              startNormal |->
                                Geo(normalizeAndSpliceWires(S.wires, S.components, Ids(S.wires)))
                                  = Geo(S.wires)]]

startDrag(S, id, pointerWorld) ==
  IF ~hasComponent(S.components, id) THEN S
  ELSE LET inst == findComponent(S.components, id)
           S1 == IF S.rerouteOwnerId # id THEN beginRerouteForSelectedComponent(S, id) ELSE S
       IN [S1 EXCEPT !.moveDrag = [id |-> id,
                                   offset |-> Pt(inst.pos.x - pointerWorld.x,
                                                 inst.pos.y - pointerWorld.y)]]

\* updateDrag that moves the component and leaves the preview as it was.
updateDragStalePreview(S, pointerWorld) ==
  IF S.moveDrag.id = NoId THEN S
  ELSE IF ~hasComponent(S.components, S.moveDrag.id) THEN S
  ELSE IF ~isInsideCanvas(snap(Pt(pointerWorld.x + S.moveDrag.offset.x,
                                  pointerWorld.y + S.moveDrag.offset.y))) THEN S
  ELSE [S EXCEPT !.components[indexOfComponent(S.components, S.moveDrag.id)].pos =
                   snap(Pt(pointerWorld.x + S.moveDrag.offset.x,
                           pointerWorld.y + S.moveDrag.offset.y)),
                 !.sess = IF S.sess.active THEN [S.sess EXCEPT !.moved = TRUE] ELSE S.sess]

\* updateDrag that clamps a position outside the canvas to the canvas edge
\* instead of rejecting it.
updateDragClamping(S, pointerWorld) ==
  IF S.moveDrag.id = NoId THEN S
  ELSE IF ~hasComponent(S.components, S.moveDrag.id) THEN S
  ELSE LET i == indexOfComponent(S.components, S.moveDrag.id)
           snapped == snap(Pt(pointerWorld.x + S.moveDrag.offset.x,
                              pointerWorld.y + S.moveDrag.offset.y))
           moved == [S.components[i] EXCEPT
                       !.pos = Pt(Max2(0, Min2(WorldWidth, snapped.x)),
                                  Max2(0, Min2(WorldHeight, snapped.y)))]
       IN [S EXCEPT !.components[i] = moved,
                    !.dragWirePreview =
                       IF S.rerouteOwnerId = S.moveDrag.id
                       THEN rebuildReroutePreview(moved, S.rerouteAttachments)
                       ELSE S.dragWirePreview,
                    !.sess = IF S.sess.active THEN [S.sess EXCEPT !.moved = TRUE] ELSE S.sess]

\* updateDrag that forgets the attachments once the preview is rebuilt.
updateDragDroppingAttachments(S, pointerWorld) ==
  IF S.moveDrag.id = NoId THEN S
  ELSE IF ~hasComponent(S.components, S.moveDrag.id) THEN S
  ELSE LET i == indexOfComponent(S.components, S.moveDrag.id)
           snapped == snap(Pt(pointerWorld.x + S.moveDrag.offset.x,
                              pointerWorld.y + S.moveDrag.offset.y))
           moved == [S.components[i] EXCEPT !.pos = snapped]
       IN IF ~isInsideCanvas(snapped) THEN S
          ELSE [S EXCEPT !.components[i] = moved,
                         !.dragWirePreview = rebuildReroutePreview(moved, S.rerouteAttachments),
                         !.rerouteAttachments = <<>>,
                         !.sess = IF S.sess.active THEN [S.sess EXCEPT !.moved = TRUE]
                                  ELSE S.sess]

updateDrag(S, pointerWorld) ==
  IF S.moveDrag.id = NoId THEN S
  ELSE IF ~hasComponent(S.components, S.moveDrag.id) THEN S
  ELSE LET i == indexOfComponent(S.components, S.moveDrag.id)
           target == Pt(pointerWorld.x + S.moveDrag.offset.x, pointerWorld.y + S.moveDrag.offset.y)
           snapped == snap(target)
           moved == [S.components[i] EXCEPT !.pos = snapped]
       IN IF ~isInsideCanvas(snapped) THEN S
          ELSE [S EXCEPT !.components[i] = moved,
                         !.dragWirePreview =
                            IF S.rerouteOwnerId = S.moveDrag.id
                            THEN rebuildReroutePreview(moved, S.rerouteAttachments)
                            ELSE S.dragWirePreview,
                         !.sess = IF S.sess.active /\ snapped # S.components[i].pos
                                  THEN [S.sess EXCEPT !.moved = TRUE]
                                  ELSE S.sess]

\* Identifiers that a new wire id must differ from: the live wires and a wire
\* the selection still names.
usedWireIds(S) ==
  Ids(S.wires) \cup (IF S.selection.kind = "wire" THEN {S.selection.id} ELSE {})

RECURSIVE pushSegments(_, _, _)
\* state.wires.push({ id: newId(), a, b }) for every segment of segs, in order.
pushSegments(ws, segs, used) ==
  IF segs = <<>> THEN ws
  ELSE LET id == newIds(1, used \cup Ids(ws))[1]
       IN pushSegments(Append(ws, [id |-> id, a |-> Head(segs).a, b |-> Head(segs).b]),
                       Tail(segs), used)

\* The end of commitReroutePreview, after the push loop left state.wires as
\* pushed: normalise once, empty the preview; S is the state at the call.
commitDone(S, pushed, normalized) ==
  [S EXCEPT !.wires = normalized,
            !.dragWirePreview = <<>>,
            !.commit = [called |-> TRUE, effective |-> TRUE, owner |-> S.rerouteOwnerId,
                        preview |-> S.dragWirePreview, pre |-> S.wires,
                        appended |-> SubSeq(pushed, Len(S.wires) + 1, Len(pushed)),
                        post |-> normalized, components |-> S.components,
                        attachments |-> S.rerouteAttachments,
                        sess |-> S.sess]]

normalizeOnceAtEnd(S, pushed) ==
  commitDone(S, pushed, normalizeWires([S EXCEPT !.wires = pushed]).wires)

\* commitReroutePreview that leaves state.wires alone.
commitDiscardingPreview(S) ==
  IF S.dragWirePreview = <<>>
  THEN (IF S.rerouteOwnerId = NoId THEN S
        ELSE [S EXCEPT !.commit = [called |-> TRUE, effective |-> FALSE,
                                   owner |-> S.rerouteOwnerId, preview |-> <<>>,
                                   pre |-> S.wires, appended |-> <<>>, post |-> S.wires,
                                   components |-> S.components,
                        attachments |-> S.rerouteAttachments, sess |-> S.sess]])
  ELSE [S EXCEPT !.dragWirePreview = <<>>,
                 !.commit = [called |-> TRUE, effective |-> TRUE, owner |-> S.rerouteOwnerId,
                             preview |-> S.dragWirePreview, pre |-> S.wires,
                             appended |-> <<>>, post |-> S.wires,
                             components |-> S.components,
                        attachments |-> S.rerouteAttachments, sess |-> S.sess]]

\* commitReroutePreview without the early return on an empty preview.
commitNormalizingAlways(S) ==
  IF S.dragWirePreview = <<>> /\ S.rerouteOwnerId = NoId THEN S
  ELSE normalizeOnceAtEnd(S, pushSegments(S.wires,
                                 SelectSeq(S.dragWirePreview, LAMBDA sg : ~isDegenerate(sg)),
                                 usedWireIds(S)))

commitReroutePreview(S) ==
  IF S.dragWirePreview = <<>>
  THEN (IF S.rerouteOwnerId = NoId THEN S
        ELSE [S EXCEPT !.commit = [called |-> TRUE, effective |-> FALSE,
                                   owner |-> S.rerouteOwnerId, preview |-> <<>>,
                                   pre |-> S.wires, appended |-> <<>>, post |-> S.wires,
                                   components |-> S.components,
                        attachments |-> S.rerouteAttachments, sess |-> S.sess]])
  ELSE normalizeOnceAtEnd(S, pushSegments(S.wires,
                                 SelectSeq(S.dragWirePreview, LAMBDA sg : ~isDegenerate(sg)),
                                 usedWireIds(S)))

clearSelection(S) ==
  LET S1 == commitReroutePreview(S)
  IN [S1 EXCEPT !.rerouteOwnerId = NoId,
                !.rerouteAttachments = <<>>,
                !.dragWirePreview = <<>>,
                !.moveDrag = NoDrag,
                !.selection = Null,
                !.sess = NoSession]

setRerouteOwnerId(S, v) ==
  [S EXCEPT !.rerouteOwnerId = v, !.sess = IF v = NoId THEN NoSession ELSE S.sess]

clearMoveDrag(S) == [S EXCEPT !.moveDrag = NoDrag]

\* ---------------------------------------------------------------------------
\* app.ts: commands and helpers owned by App
\* ---------------------------------------------------------------------------

\* deleteSelection that drops the session of a deleted component, no commit.
deleteSelectionDroppingSession(S) ==
  LET sel == S.selection
  IN IF sel = Null THEN S
     ELSE IF sel.kind = "component"
          THEN [S EXCEPT !.components = SelectSeq(S.components, LAMBDA c : c.id # sel.id),
                         !.rerouteOwnerId = NoId, !.rerouteAttachments = <<>>,
                         !.dragWirePreview = <<>>, !.moveDrag = NoDrag,
                         !.selection = Null, !.sess = NoSession]
          ELSE clearSelection(normalizeWires([S EXCEPT !.wires =
                                 SelectSeq(S.wires, LAMBDA w : w.id # sel.id)]))

deleteSelection(S) ==
  LET sel == S.selection
  IN IF sel = Null THEN S
     ELSE IF sel.kind = "component"
          THEN clearSelection([S EXCEPT !.components =
                                 SelectSeq(S.components, LAMBDA c : c.id # sel.id)])
          ELSE clearSelection(normalizeWires([S EXCEPT !.wires =
                                 SelectSeq(S.wires, LAMBDA w : w.id # sel.id)]))

rotateSelection(S) ==
  LET sel == S.selection
  IN IF sel = Null THEN S
     ELSE IF sel.kind # "component" THEN S
     ELSE IF ~hasComponent(S.components, sel.id) THEN clearSelection(S)
     ELSE LET i == indexOfComponent(S.components, sel.id)
          IN [S EXCEPT !.components[i].rotation = (S.components[i].rotation + 90) % 360,
                       !.sess = IF S.sess.active THEN [S.sess EXCEPT !.pure = FALSE]
                                ELSE S.sess]

isComponentPortPoint(S, p) ==
  \E i \in DOMAIN S.components :
    \E k \in DOMAIN portWorldPositions(S.components[i]) :
      LET port == portWorldPositions(S.components[i])[k]
      IN port.x = p.x /\ port.y = p.y

isPointOnWire(S, p) ==
  \E i \in DOMAIN S.wires :
    LET w == S.wires[i]
    IN IF w.a.x = w.b.x
       THEN p.x = w.a.x /\ p.y >= Min2(w.a.y, w.b.y) /\ p.y <= Max2(w.a.y, w.b.y)
       ELSE IF w.a.y = w.b.y
            THEN p.y = w.a.y /\ p.x >= Min2(w.a.x, w.b.x) /\ p.x <= Max2(w.a.x, w.b.x)
            ELSE FALSE

\* applyMode that clears the wire start and leaves the session alone.
applyModeKeepingSession(S, m) == [S EXCEPT !.wireStart = Null]

applyMode(S, m) == [clearSelection(S) EXCEPT !.wireStart = Null]

\* tempToolbar.ts setMode: store the mode, then notify App (onModeChange).
setMode(S, m) == applyMode([S EXCEPT !.mode = m], m)

isWireMode(m) == m = "wire"
isSelectMode(m) == m = "select"
isPlaceMode(m) == ~isSelectMode(m) /\ ~isWireMode(m)

\* Component ids never collide with ids still referred to.
newComponentId(S) ==
  LET used == {S.components[i].id : i \in DOMAIN S.components}
                \cup {S.rerouteOwnerId, S.moveDrag.id}
                \cup (IF S.selection.kind = "component" THEN {S.selection.id} ELSE {})
      k == CHOOSE n \in 1..(Cardinality(used) + 1) :
             (0 - n) \notin used /\ \A j \in 1..(n - 1) : (0 - j) \in used
  IN 0 - k

\* ---------------------------------------------------------------------------
\* camera.ts: only the pan gesture's state matters to the handlers
\* ---------------------------------------------------------------------------

isPanning(S) == S.panDrag # "none"

panMoved(S) == S.panDrag = "moved"

startPan(S) == [S EXCEPT !.panDrag = "still"]

\* far: the pointer is more than 3 px (|dx| + |dy|) from where the pan started.
updatePan(S, far) ==
  IF S.panDrag = "none" THEN S
  ELSE IF far THEN [S EXCEPT !.panDrag = "moved"] ELSE S

endPan(S) == [S EXCEPT !.panDrag = "none"]

\* ---------------------------------------------------------------------------
\* bindInput.ts: the event handlers
\* ---------------------------------------------------------------------------

onContextMenu(S) ==
  IF isPlaceMode(S.mode) THEN setMode(S, "select")
  ELSE IF isWireMode(S.mode)
       THEN (IF S.wireStart # Null THEN [S EXCEPT !.wireStart = Null]
             ELSE setMode(S, "select"))
       ELSE clearSelection(S)

onMouseLeave(S) == [S EXCEPT !.isMouseOverCanvas = FALSE]

onMouseMove(S, svgPoint) ==
  IF isPanning(S) THEN S
  ELSE LET inside == isInsideCanvas(svgPoint)
           S1 == [S EXCEPT !.isMouseOverCanvas = inside]
       IN IF ~inside THEN S1
          ELSE IF isPlaceMode(S.mode) THEN [S1 EXCEPT !.previewPos = snap(svgPoint)]
          ELSE S1

\* The click-away branch of pointerdown with the commit left out.
handoffWithoutCommit(S, hit) ==
  IF S.rerouteOwnerId # NoId /\ (hit.kind # "component" \/ hit.id # S.rerouteOwnerId)
  THEN clearMoveDrag(setRerouteOwnerId(S, NoId))
  ELSE S

\* pointerdown, select mode: commit the reroute preview when clicking away
\* from the owner.
commitOnClickAway(S, hit) ==
  IF S.rerouteOwnerId # NoId /\ (hit.kind # "component" \/ hit.id # S.rerouteOwnerId)
  THEN clearMoveDrag(setRerouteOwnerId(commitReroutePreview(S), NoId))
  ELSE S

pointerDownWire(S, svgPoint) ==
  IF ~isInsideCanvas(svgPoint) THEN S
  ELSE LET p == snap(svgPoint)
           onPort == isComponentPortPoint(S, p)
           onWire == isPointOnWire(S, p)
           start == S.wireStart
       IN IF start = Null THEN [S EXCEPT !.wireStart = p]
          ELSE LET segs == SelectSeq(manhattanSegments(start, p), LAMBDA sg : ~isDegenerate(sg))
               IN [normalizeWires([S EXCEPT !.wires = pushSegments(S.wires, segs, usedWireIds(S))])
                     EXCEPT !.wireStart = IF onPort \/ onWire THEN Null ELSE p]

\* pointerdown, select mode, after state.selection = hit: a component begins
\* its session (unless it owns one) and starts a drag.
beginAndStartDrag(S, hit, svgPoint) ==
  IF hit.kind = "component"
  THEN startDrag(IF S.rerouteOwnerId # hit.id
                 THEN beginRerouteForSelectedComponent(S, hit.id)
                 ELSE S,
                 hit.id, svgPoint)
  ELSE S

pointerDownHit(S, hit, svgPoint) ==
  IF hit = Null THEN startPan(S)
  ELSE beginAndStartDrag([commitOnClickAway(S, hit) EXCEPT !.selection = hit], hit, svgPoint)

pointerDownSelect(S, svgPoint) ==
  IF isInsideCanvas(svgPoint)
  THEN pointerDownHit(S, hitTest(S.components, S.wires, svgPoint), svgPoint)
  ELSE clearSelection(S)

pointerDownPlace(S) ==
  IF ~S.isMouseOverCanvas THEN S
  ELSE LET inst == [id |-> newComponentId(S), typeId |-> S.mode,
                    pos |-> S.previewPos, rotation |-> S.previewRotation]
       IN clearSelection(normalizeWires([S EXCEPT !.components = Append(S.components, inst)]))

\* button: 0 left, 1 middle, 2 right.
onPointerDown(S, button, svgPoint) ==
  IF button = 1 THEN startPan(S)
  ELSE IF button # 0 THEN S
  ELSE IF isWireMode(S.mode) THEN pointerDownWire(S, svgPoint)
  ELSE IF isSelectMode(S.mode) THEN pointerDownSelect(S, svgPoint)
  ELSE pointerDownPlace(S)

onPointerMove(S, svgPoint, far) ==
  IF isPanning(S) THEN updatePan(S, far)
  ELSE IF isPlaceMode(S.mode) THEN S
  ELSE IF S.moveDrag.id = NoId THEN S
  ELSE updateDrag(S, svgPoint)

\* pointerup that also commits the session of the dragged component.
onPointerUpCommitting(S) ==
  IF isPanning(S)
  THEN (IF ~panMoved(S) THEN clearSelection(endPan(S)) ELSE endPan(S))
  ELSE IF S.moveDrag.id = NoId THEN S
  ELSE clearMoveDrag(setRerouteOwnerId(commitReroutePreview(S), NoId))

onPointerUp(S) ==
  IF isPanning(S)
  THEN LET wasMoved == panMoved(S)
           S1 == endPan(S)
       IN IF ~wasMoved THEN clearSelection(S1) ELSE S1
  ELSE IF S.moveDrag.id = NoId THEN S
  ELSE clearMoveDrag(S)

onKeyDown(S, k) ==
  IF k = "escape" /\ isWireMode(S.mode) THEN setMode([S EXCEPT !.wireStart = Null], "select")
  ELSE IF k = "escape" /\ isPlaceMode(S.mode) THEN setMode(S, "select")
  ELSE IF k = "w" THEN setMode(S, IF isWireMode(S.mode) THEN "select" ELSE "wire")
  ELSE IF k = "delete" \/ k = "backspace"
       THEN (IF isPlaceMode(S.mode) THEN S ELSE deleteSelection(S))
  ELSE IF k = "r"
       THEN (IF isPlaceMode(S.mode)
             THEN [S EXCEPT !.previewRotation = (S.previewRotation + 90) % 360]
             ELSE rotateSelection(S))
  ELSE S

\* ---------------------------------------------------------------------------
\* Bounded inputs for the pure functions
\* ---------------------------------------------------------------------------

GridMax == 3
MaxSegs == 2

Xs == 0..GridMax
Ys == 0..2
GridPts == {Pt(cx, cy) : cx \in Xs, cy \in Ys}

\* Non-degenerate axis-aligned segments of the grid, lower end first.
LabSegs ==
  {[a |-> p, b |-> q] : <<p, q>> \in
     {<<p, q>> \in GridPts \X GridPts :
        (p.x = q.x /\ p.y < q.y) \/ (p.y = q.y /\ p.x < q.x)}}

segRank(s) ==
  (((IF s.a.x = s.b.x THEN 1 ELSE 0) * (GridMax + 1) + s.a.x) * (GridMax + 1) + s.a.y)
    * (GridMax + 1) + (IF s.a.x = s.b.x THEN s.b.y ELSE s.b.x)

RECURSIVE LabSegSeqs(_)
\* Lists of at most n distinct segments, one list per set of segments.
LabSegSeqs(n) ==
  IF n = 0 THEN {<<>>}
  ELSE LET prev == LabSegSeqs(n - 1)
       IN prev \cup
          {Append(sq[1], sq[2]) : sq \in
             {sq \in {t \in prev : Len(t) = n - 1} \X LabSegs :
                Len(sq[1]) = 0 \/ segRank(sq[1][Len(sq[1])]) < segRank(sq[2])}}

\* Extra junction point lists: none, or one point of the grid.
LabExtras == {<<>>} \cup {<<p>> : p \in GridPts}

\* Inputs of the splice: wires between points one port offset apart, so that
\* wire ends can sit on ports, between ports and beside them.
MaxSpliceSegs == 3
PortStep == ResistorLead + ResistorBodyW \div 2
SplicePts == {Pt(cx * PortStep, cy * PortStep) : cx \in 0..3, cy \in 0..2}

SpliceSegs ==
  {[a |-> p, b |-> q] : <<p, q>> \in
     {<<p, q>> \in SplicePts \X SplicePts :
        (p.x = q.x /\ p.y < q.y) \/ (p.y = q.y /\ p.x < q.x)}}

spliceRank(s) ==
  (((IF s.a.x = s.b.x THEN 1 ELSE 0) * 4 + s.a.x \div PortStep) * 4 + s.a.y \div PortStep)
    * 4 + (IF s.a.x = s.b.x THEN s.b.y ELSE s.b.x) \div PortStep

RECURSIVE SpliceSegSeqs(_)
\* Lists of at most n distinct segments, one list per set of segments.
SpliceSegSeqs(n) ==
  IF n = 0 THEN {<<>>}
  ELSE LET prev == SpliceSegSeqs(n - 1)
       IN prev \cup
          {Append(sq[1], sq[2]) : sq \in
             {sq \in {t \in prev : Len(t) = n - 1} \X SpliceSegs :
                Len(sq[1]) = 0 \/ spliceRank(sq[1][Len(sq[1])]) < spliceRank(sq[2])}}

Resistor(id, pos, rotation) ==
  [id |-> id, typeId |-> "resistor", pos |-> pos, rotation |-> rotation]

\* One resistor with ports (0,0) and (2 PortStep, 0), alone or with a second
\* one: further along the line, overlapping on the line, or across it.
SpliceComponents ==
  LET A == Resistor(-1, Pt(PortStep, 0), 0)
  IN {<<A>>}
       \cup {<<A, Resistor(-2, Pt(3 * PortStep, 0), 0)>>,
             <<A, Resistor(-2, Pt(2 * PortStep, 0), 0)>>,
             <<Resistor(-2, Pt(2 * PortStep, 0), 0), A>>,
             <<A, Resistor(-2, Pt(2 * PortStep, PortStep), 90)>>,
             <<Resistor(-2, Pt(PortStep, PortStep), 90), A>>}

\* Inputs of rotatePoint and manhattanSegments: points around the origin and
\* the four values of RotationDeg.
GeomMax == 2
GeomPts == {Pt(cx, cy) : cx \in (-GeomMax)..GeomMax, cy \in -1..1}
Rotations == {0, 90, 180, 270}

OtherType(id, typeId, pos) == [id |-> id, typeId |-> typeId, pos |-> pos, rotation |-> 0]

\* Component lists with a component of one or three ports: a tee over the
\* line (its first two ports where the resistor's are), a probe whose port is
\* between the resistor's ports, a tee overlapping the resistor, a probe alone.
SkipComponents ==
  LET A == Resistor(-1, Pt(PortStep, 0), 0)
  IN {<<OtherType(-2, "tee", Pt(PortStep, 0))>>,
      <<A, OtherType(-2, "probe", Pt(2 * PortStep, 0))>>,
      <<OtherType(-2, "tee", Pt(2 * PortStep, 0)), A>>,
      <<OtherType(-2, "probe", Pt(PortStep, 0))>>}

\* Raw inputs of normalizeAndSegmentWires: lists of any pairs of points of a
\* small grid (diagonal, zero-length, repeated and reversed pairs included),
\* and lists of pairs of points of one line.
MaxRawSegs == 2
MaxLineSegs == 3
LineMax == 4
RawPts == {Pt(cx, cy) : cx \in 0..2, cy \in 0..1}
RawSegs == {[a |-> p, b |-> q] : p \in RawPts, q \in RawPts}
LineSegs == {[a |-> Pt(i, 0), b |-> Pt(j, 0)] : i \in 0..LineMax, j \in 0..LineMax}

\* Extra junction points: none, one, two in both orders, one given twice.
RawExtras ==
  {<<>>, <<Pt(1, 0)>>, <<Pt(1, 0), Pt(1, 1)>>, <<Pt(1, 1), Pt(1, 0)>>, <<Pt(1, 0), Pt(1, 0)>>}

\* The lists of at most n elements of a set.
ListsOf(S, n) == UNION {[1..k -> S] : k \in 0..n}

\* Wires with ids 1..n from a list of pairs, each pair as given.
rawWires(segs) == [i \in DOMAIN segs |-> [id |-> i, a |-> segs[i].a, b |-> segs[i].b]]

\* A wire list from a segment list. A WireSegment is an unordered pair: every
\* second segment is given with its higher end first.
asWires(segs) ==
  [i \in DOMAIN segs |->
     IF i % 2 = 0
     THEN [id |-> i, a |-> segs[i].b, b |-> segs[i].a]
     ELSE [id |-> i, a |-> segs[i].a, b |-> segs[i].b]]

\* ---------------------------------------------------------------------------
\* Bounded inputs for the editor
\* ---------------------------------------------------------------------------

MaxComponents == 2
MaxWires == 1
MaxCalls == 4
MaxMoves == 2

\* Where a click lands relative to a component's position.
ClickOffsets == {Pt(10, -5)}

EmptyPt == Pt(600, 600)
OutsidePt == Pt(-200, 100)

\* Mouse positions while hovering (place preview): on and off the canvas.
MousePts == {Pt(110, 95), OutsidePt}

\* Wire-mode clicks: three points of one horizontal line (one of them given
\* off-grid) and a point off the canvas.
WirePts == {Pt(175, 100), Pt(228, 97), Pt(375, 100), OutsidePt}

\* Pointer positions during a drag.
DragPts == {Pt(110, 95), Pt(310, 95), Pt(110, 195), OutsidePt}

midpoint(w) == Pt((w.a.x + w.b.x) \div 2, (w.a.y + w.b.y) \div 2)

\* Select-mode clicks: on each component, on each wire, on empty canvas and
\* outside the canvas.
SelectPts(comps, ws) ==
  {Pt(comps[i].pos.x + d.x, comps[i].pos.y + d.y) : i \in DOMAIN comps, d \in ClickOffsets}
    \cup {midpoint(ws[i]) : i \in DOMAIN ws}
    \cup {EmptyPt, OutsidePt}

Modes == {"select", "wire", "resistor"}

\* Keys pressed in Spec. The r key (rotateSelection, preview rotation) is
\* pressed in SpecTurn only.
Keys == {"escape", "w", "delete"}

VARIABLES lab, components, wires, selection, mode, wireStart, isMouseOverCanvas,
          previewPos, previewRotation, panDrag, rerouteOwnerId, rerouteAttachments,
          dragWirePreview, moveDrag, last, sess

edVars == <<components, wires, selection, mode, wireStart, isMouseOverCanvas,
            previewPos, previewRotation, panDrag, rerouteOwnerId, rerouteAttachments,
            dragWirePreview, moveDrag, last, sess>>

vars == <<lab, components, wires, selection, mode, wireStart, isMouseOverCanvas,
          previewPos, previewRotation, panDrag, rerouteOwnerId, rerouteAttachments,
          dragWirePreview, moveDrag, last, sess>>

\* The editor right after App.start(): empty state, select mode, no session.
EditorInit ==
  /\ components = <<>> /\ wires = <<>> /\ selection = Null
  /\ mode = "select" /\ wireStart = Null /\ isMouseOverCanvas = FALSE
  /\ previewPos = Pt(0, 0) /\ previewRotation = 0 /\ panDrag = "none"
  /\ rerouteOwnerId = NoId /\ rerouteAttachments = <<>> /\ dragWirePreview = <<>>
  /\ moveDrag = NoDrag
  /\ last = [commit |-> NoCommit, begin |-> NoBegin]
  /\ sess = NoSession

\* ---------------------------------------------------------------------------
\* SpecNorm: normalizeAndSegmentWires applied to bounded inputs, then to its
\* own output with the same extra junction points.
\* ---------------------------------------------------------------------------

InitNorm ==
  \E segs \in LabSegSeqs(MaxSegs), E \in LabExtras :
    lab = [fn |-> "normalize", phase |-> "input", W |-> asWires(segs), E |-> E,
           out |-> <<>>, out2 |-> <<>>]
  /\ EditorInit

NormApply ==
  /\ lab.fn = "normalize" /\ lab.phase = "input"
  /\ lab' = [lab EXCEPT !.phase = "once",
                        !.out = normalizeAndSegmentWires(lab.W, lab.E, Ids(lab.W))]
  /\ UNCHANGED edVars

NormAgain ==
  /\ lab.fn = "normalize" /\ lab.phase = "once"
  /\ lab' = [lab EXCEPT !.phase = "twice",
                        !.out2 = normalizeAndSegmentWires(lab.out, lab.E, Ids(lab.out))]
  /\ UNCHANGED edVars

NextNorm == NormApply \/ NormAgain

SpecNorm == InitNorm /\ [][NextNorm]_vars


\* ---------------------------------------------------------------------------
\* SpecRoute: manhattanFromFixed applied to bounded inputs.
\* ---------------------------------------------------------------------------

InitRoute ==
  \E f \in GridPts, t \in GridPts, ax \in {"h", "v"} :
    lab = [fn |-> "route", phase |-> "input", fixed |-> f, target |-> t,
           incomingAxis |-> ax, out |-> <<>>]
  /\ EditorInit

RouteApply ==
  /\ lab.fn = "route" /\ lab.phase = "input"
  /\ lab' = [lab EXCEPT !.phase = "done",
                        !.out = manhattanFromFixed(lab.fixed, lab.target, lab.incomingAxis)]
  /\ UNCHANGED edVars

NextRoute == RouteApply

SpecRoute == InitRoute /\ [][NextRoute]_vars

\* ---------------------------------------------------------------------------
\* SpecSplice: normalizeAndSpliceWires applied to bounded inputs.
\* ---------------------------------------------------------------------------

InitSplice ==
  \E segs \in SpliceSegSeqs(MaxSpliceSegs), comps \in SpliceComponents :
    lab = [fn |-> "splice", phase |-> "input", W |-> asWires(segs), comps |-> comps,
           out |-> <<>>]
  /\ EditorInit

SpliceApply ==
  /\ lab.fn = "splice" /\ lab.phase = "input"
  /\ lab' = [lab EXCEPT !.phase = "done",
                        !.out = normalizeAndSpliceWires(lab.W, lab.comps, Ids(lab.W))]
  /\ UNCHANGED edVars

NextSplice == SpliceApply

SpecSplice == InitSplice /\ [][NextSplice]_vars

\* ---------------------------------------------------------------------------
\* SpecGeom: manhattanSegments applied to two points; rotatePoint applied to
\* a point by r1 and to the result by r2; rotatePoint applied by 90 up to
\* four times in a row.
\* ---------------------------------------------------------------------------

InitGeom ==
  \E a \in GeomPts, b \in GeomPts, r1 \in Rotations, r2 \in Rotations :
    lab = [fn |-> "geom", phase |-> "input", a |-> a, b |-> b, r1 |-> r1, r2 |-> r2,
           out |-> <<>>, q |-> a, q2 |-> a, t |-> a, turns |-> 0]
  /\ EditorInit

FreeformApply ==
  /\ lab.fn = "geom" /\ lab.phase = "input"
  /\ lab' = [lab EXCEPT !.phase = "routed", !.out = manhattanSegments(lab.a, lab.b)]
  /\ UNCHANGED edVars

RotateFirst ==
  /\ lab.fn = "geom" /\ lab.phase = "input"
  /\ lab' = [lab EXCEPT !.phase = "rotated", !.q = rotatePoint(lab.a, lab.r1)]
  /\ UNCHANGED edVars

RotateSecond ==
  /\ lab.fn = "geom" /\ lab.phase = "rotated"
  /\ lab' = [lab EXCEPT !.phase = "rotated2", !.q2 = rotatePoint(lab.q, lab.r2)]
  /\ UNCHANGED edVars

QuarterTurn ==
  /\ lab.fn = "geom" /\ lab.phase \in {"input", "turning"} /\ lab.turns < 4
  /\ lab' = [lab EXCEPT !.phase = "turning", !.t = rotatePoint(lab.t, 90),
                        !.turns = lab.turns + 1]
  /\ UNCHANGED edVars

NextGeom == FreeformApply \/ RotateFirst \/ RotateSecond \/ QuarterTurn

SpecGeom == InitGeom /\ [][NextGeom]_vars

\* ---------------------------------------------------------------------------
\* SpecSkip: normalizeAndSpliceWires applied to component lists that hold a
\* component whose type has one or three ports.
\* ---------------------------------------------------------------------------

InitSkip ==
  \E segs \in SpliceSegSeqs(MaxSpliceSegs), comps \in SkipComponents :
    lab = [fn |-> "skip", phase |-> "input", W |-> asWires(segs), comps |-> comps,
           out |-> <<>>]
  /\ EditorInit

SkipApply ==
  /\ lab.fn = "skip" /\ lab.phase = "input"
  /\ lab' = [lab EXCEPT !.phase = "done",
                        !.out = normalizeAndSpliceWires(lab.W, lab.comps, Ids(lab.W))]
  /\ UNCHANGED edVars

NextSkip == SkipApply

SpecSkip == InitSkip /\ [][NextSkip]_vars

\* ---------------------------------------------------------------------------
\* SpecRaw: normalizeAndSegmentWires applied to raw inputs, then to the same
\* geometry given as another list: each distinct pair once, lower end first,
\* in a fixed order, with the extra points once each in a fixed order.
\* ---------------------------------------------------------------------------

pointRank(p) == p.x * (LineMax + 1) + p.y

\* The pair with its lower-ranked end first.
lowerEndFirst(w) ==
  IF pointRank(w.a) <= pointRank(w.b) THEN [a |-> w.a, b |-> w.b] ELSE [a |-> w.b, b |-> w.a]

pairRank(w) == pointRank(w.a) * (LineMax + 1) * (LineMax + 1) + pointRank(w.b)

RECURSIVE pairsInOrder(_)
pairsInOrder(S) ==
  IF S = {} THEN <<>>
  ELSE LET m == CHOOSE w \in S : \A v \in S : pairRank(w) <= pairRank(v)
       IN <<m>> \o pairsInOrder(S \ {m})

RECURSIVE pointsInOrder(_)
pointsInOrder(S) ==
  IF S = {} THEN <<>>
  ELSE LET m == CHOOSE p \in S : \A q \in S : pointRank(p) <= pointRank(q)
       IN <<m>> \o pointsInOrder(S \ {m})

\* The same segments as ws, as another list with other ids.
sameGeometry(ws) == rawWires(pairsInOrder({lowerEndFirst(ws[i]) : i \in DOMAIN ws}))

InitRaw ==
  /\ \/ \E segs \in ListsOf(RawSegs, MaxRawSegs), E \in RawExtras :
          lab = [fn |-> "raw", phase |-> "input", W |-> rawWires(segs), E |-> E,
                 threw |-> FALSE, out |-> <<>>, out2 |-> <<>>]
     \/ \E segs \in ListsOf(LineSegs, MaxLineSegs) :
          lab = [fn |-> "raw", phase |-> "input", W |-> rawWires(segs), E |-> <<>>,
                 threw |-> FALSE, out |-> <<>>, out2 |-> <<>>]
  /\ EditorInit

RawApply ==
  /\ lab.fn = "raw" /\ lab.phase = "input"
  /\ \E r \in {normalizeOrThrow(lab.W, lab.E, Ids(lab.W))} :
       lab' = [lab EXCEPT !.phase = "done", !.threw = r.threw, !.out = r.wires]
  /\ UNCHANGED edVars

RawAgain ==
  /\ lab.fn = "raw" /\ lab.phase = "done" /\ ~lab.threw
  /\ \E r \in {normalizeOrThrow(sameGeometry(lab.W), pointsInOrder(Range(lab.E)), {})} :
       lab' = [lab EXCEPT !.phase = "again", !.out2 = r.wires]
  /\ UNCHANGED edVars

NextRaw == RawApply \/ RawAgain

SpecRaw == InitRaw /\ [][NextRaw]_vars

\* ---------------------------------------------------------------------------
\* Spec: the editor driven by its events, from the state after App.start()
\* ---------------------------------------------------------------------------

\* The program state at the start of a handler; the history of the previous
\* handler is forgotten.
Start ==
  [components |-> components, wires |-> wires, selection |-> selection, mode |-> mode,
   wireStart |-> wireStart, isMouseOverCanvas |-> isMouseOverCanvas,
   previewPos |-> previewPos, previewRotation |-> previewRotation, panDrag |-> panDrag,
   rerouteOwnerId |-> rerouteOwnerId, rerouteAttachments |-> rerouteAttachments,
   dragWirePreview |-> dragWirePreview, moveDrag |-> moveDrag,
   commit |-> NoCommit, begin |-> NoBegin, sess |-> sess]

InstallEditor(S) ==
  /\ components' = S.components /\ wires' = S.wires /\ selection' = S.selection
  /\ mode' = S.mode /\ wireStart' = S.wireStart
  /\ isMouseOverCanvas' = S.isMouseOverCanvas
  /\ previewPos' = S.previewPos /\ previewRotation' = S.previewRotation
  /\ panDrag' = S.panDrag
  /\ rerouteOwnerId' = S.rerouteOwnerId /\ rerouteAttachments' = S.rerouteAttachments
  /\ dragWirePreview' = S.dragWirePreview /\ moveDrag' = S.moveDrag
  /\ last' = [commit |-> S.commit, begin |-> S.begin]
  /\ sess' = S.sess

Install(S) == InstallEditor(S) /\ UNCHANGED lab

\* The pointer move would put the dragged component at another position.
Moves(S) == S.components # components

Init == lab = [fn |-> "editor", moves |-> 0] /\ EditorInit

\* The listeners are bound once App.start() has built the editor.
Bound == lab.fn = "editor"

ContextMenu == Bound /\ \E S \in {onContextMenu(Start)} : Install(S)

MouseLeave == Bound /\ \E S \in {onMouseLeave(Start)} : Install(S)

MouseMove == Bound /\ \E p \in MousePts : \E S \in {onMouseMove(Start, p)} : Install(S)

\* The user draws at most MaxWires wires and places at most MaxComponents
\* components. Only a left click reads the pointer position.
PointerDown ==
  Bound /\ \E button \in {0, 1, 2} :
    \E p \in (IF button # 0 \/ isPlaceMode(mode) THEN {EmptyPt}
              ELSE IF isWireMode(mode) THEN WirePts
              ELSE SelectPts(components, wires)) :
      /\ (button = 0 /\ isWireMode(mode) /\ wireStart # Null) => Len(wires) < MaxWires
      /\ (button = 0 /\ isPlaceMode(mode)) => Len(components) < MaxComponents
      /\ \E S \in {onPointerDown(Start, button, p)} : Install(S)

\* The user moves components at most MaxMoves times. A pan reads only how far
\* the pointer went, a drag only where it is.
PointerMove ==
  \E p \in (IF panDrag # "none" THEN {EmptyPt} ELSE DragPts) :
    \E far \in (IF panDrag # "none" THEN BOOLEAN ELSE {FALSE}) :
      \E S \in {onPointerMove(Start, p, far)} :
         IF Moves(S)
         THEN /\ lab.moves < MaxMoves
              /\ lab' = [lab EXCEPT !.moves = lab.moves + 1]
              /\ InstallEditor(S)
         ELSE Install(S)

PointerUp == \E S \in {onPointerUp(Start)} : Install(S)

KeyDown == Bound /\ \E k \in Keys : \E S \in {onKeyDown(Start, k)} : Install(S)

ToolbarSetMode == Bound /\ \E m \in Modes : \E S \in {setMode(Start, m)} : Install(S)

Next ==
  \/ ContextMenu \/ MouseLeave \/ MouseMove \/ PointerDown \/ PointerMove
  \/ PointerUp \/ KeyDown \/ ToolbarSetMode

Spec == Init /\ [][Next]_vars

\* ---------------------------------------------------------------------------
\* SpecApi: the session manager's public API called in any order, from a
\* layout the editor reaches: two resistors side by side, one wire between
\* their facing ports, nothing selected.
\* ---------------------------------------------------------------------------

TwoResistorsOneWire ==
  /\ components = << [id |-> -1, typeId |-> "resistor", pos |-> Pt(100, 100), rotation |-> 0],
                     [id |-> -2, typeId |-> "resistor", pos |-> Pt(300, 100), rotation |-> 0] >>
  /\ Geo(wires) = {segmentKey(Pt(175, 100), Pt(225, 100))} /\ Len(wires) = 1
  /\ selection = Null /\ mode = "select" /\ wireStart = Null /\ panDrag = "none"
  /\ rerouteOwnerId = NoId /\ rerouteAttachments = <<>> /\ dragWirePreview = <<>>
  /\ moveDrag = NoDrag

InitApi ==
  /\ lab = [fn |-> "api", calls |-> 0]
  /\ components = << [id |-> -1, typeId |-> "resistor", pos |-> Pt(100, 100), rotation |-> 0],
                     [id |-> -2, typeId |-> "resistor", pos |-> Pt(300, 100), rotation |-> 0] >>
  /\ wires = << [id |-> 1, a |-> Pt(175, 100), b |-> Pt(225, 100)] >>
  /\ selection = Null /\ mode = "select" /\ wireStart = Null /\ isMouseOverCanvas = TRUE
  /\ previewPos = Pt(100, 100) /\ previewRotation = 0 /\ panDrag = "none"
  /\ rerouteOwnerId = NoId /\ rerouteAttachments = <<>> /\ dragWirePreview = <<>>
  /\ moveDrag = NoDrag
  /\ last = [commit |-> NoCommit, begin |-> NoBegin]
  /\ sess = NoSession

\* Ids passed to the API: the components' and one that names no component.
ApiIds == {components[i].id : i \in DOMAIN components} \cup {-9}

\* At most MaxCalls API calls are made.
Call(S) ==
  /\ lab.calls < MaxCalls
  /\ lab' = [lab EXCEPT !.calls = lab.calls + 1]
  /\ InstallEditor(S)

ApiBegin == \E id \in ApiIds : \E S \in {beginRerouteForSelectedComponent(Start, id)} : Call(S)
ApiStartDrag ==
  \E id \in ApiIds, p \in SelectPts(components, wires) : \E S \in {startDrag(Start, id, p)} : Call(S)
ApiUpdateDrag == \E p \in DragPts : \E S \in {updateDrag(Start, p)} : Call(S)
ApiCommit == \E S \in {commitReroutePreview(Start)} : Call(S)
ApiClearSelection == \E S \in {clearSelection(Start)} : Call(S)
ApiSetRerouteOwnerId == \E v \in ApiIds \cup {NoId} : \E S \in {setRerouteOwnerId(Start, v)} : Call(S)
ApiClearMoveDrag == \E S \in {clearMoveDrag(Start)} : Call(S)
NextApi ==
  \/ ApiBegin \/ ApiStartDrag \/ ApiUpdateDrag \/ ApiCommit \/ ApiClearSelection
  \/ ApiSetRerouteOwnerId \/ ApiClearMoveDrag

SpecApi == InitApi /\ [][NextApi]_vars

\* ---------------------------------------------------------------------------
\* SpecRace: drags racing against deletions and calls that name a component
\* no longer (or never) in the list, from the two-resistor layout. lab records
\* the operation of the step (op, id), the component deleted while it was
\* dragged with no session begun and no drag started since (deleted), that an
\* updateDrag or pointerup ran after such a deletion (stale) and that a begin
\* or startDrag for a missing id ran on an Attached session with a preview
\* (missing).
\* ---------------------------------------------------------------------------

InitRace ==
  /\ lab = [fn |-> "race", calls |-> 0, op |-> "none", id |-> NoId, deleted |-> NoId,
            stale |-> FALSE, missing |-> FALSE]
  /\ components = << [id |-> -1, typeId |-> "resistor", pos |-> Pt(100, 100), rotation |-> 0],
                     [id |-> -2, typeId |-> "resistor", pos |-> Pt(300, 100), rotation |-> 0] >>
  /\ wires = << [id |-> 1, a |-> Pt(175, 100), b |-> Pt(225, 100)] >>
  /\ selection = Null /\ mode = "select" /\ wireStart = Null /\ isMouseOverCanvas = TRUE
  /\ previewPos = Pt(100, 100) /\ previewRotation = 0 /\ panDrag = "none"
  /\ rerouteOwnerId = NoId /\ rerouteAttachments = <<>> /\ dragWirePreview = <<>>
  /\ moveDrag = NoDrag
  /\ last = [commit |-> NoCommit, begin |-> NoBegin]
  /\ sess = NoSession

\* At most MaxCalls operations run.
Ran(S, op, id, deleted, stale, missing) ==
  /\ lab.fn = "race" /\ lab.calls < MaxCalls
  /\ lab' = [fn |-> "race", calls |-> lab.calls + 1, op |-> op, id |-> id,
             deleted |-> deleted, stale |-> stale, missing |-> missing]
  /\ InstallEditor(S)

\* A begin or startDrag for id finds no component while a preview is shown.
MissingWhileAttached(id) ==
  /\ ~hasComponent(components, id)
  /\ rerouteOwnerId # NoId /\ dragWirePreview # <<>>

RacePointerDown ==
  \E p \in SelectPts(components, wires) : \E S \in {onPointerDown(Start, 0, p)} :
    Ran(S, "pointerdown", NoId, NoId, lab.stale, lab.missing)

RaceDelete ==
  \E S \in {onKeyDown(Start, "delete")} :
    Ran(S, "delete", NoId,
        IF moveDrag.id # NoId /\ ~hasComponent(S.components, moveDrag.id)
        THEN moveDrag.id ELSE lab.deleted,
        lab.stale, lab.missing)

RaceUpdateDrag ==
  \E p \in DragPts : \E S \in {updateDrag(Start, p)} :
    Ran(S, "updateDrag", NoId, lab.deleted, lab.stale \/ lab.deleted # NoId, lab.missing)

RacePointerUp ==
  \E S \in {onPointerUp(Start)} :
    Ran(S, "pointerup", NoId, lab.deleted, lab.stale \/ lab.deleted # NoId, lab.missing)

RaceBegin ==
  \E id \in ApiIds : \E S \in {beginRerouteForSelectedComponent(Start, id)} :
    Ran(S, "begin", id, IF S.begin.called THEN NoId ELSE lab.deleted,
        lab.stale, lab.missing \/ MissingWhileAttached(id))

RaceStartDrag ==
  \E id \in ApiIds, p \in DragPts : \E S \in {startDrag(Start, id, p)} :
    Ran(S, "startDrag", id, IF S.moveDrag = moveDrag THEN lab.deleted ELSE NoId,
        lab.stale, lab.missing \/ MissingWhileAttached(id))

NextRace ==
  \/ RacePointerDown \/ RaceDelete \/ RaceUpdateDrag \/ RacePointerUp
  \/ RaceBegin \/ RaceStartDrag

SpecRace == InitRace /\ [][NextRace]_vars

\* ---------------------------------------------------------------------------
\* SpecTurn: select-mode presses and drags interleaved with the r key
\* (rotateSelection), from the two-resistor layout.
\* ---------------------------------------------------------------------------

MaxTurnSteps == 5

InitTurn ==
  /\ lab = [fn |-> "turn", calls |-> 0]
  /\ components = << [id |-> -1, typeId |-> "resistor", pos |-> Pt(100, 100), rotation |-> 0],
                     [id |-> -2, typeId |-> "resistor", pos |-> Pt(300, 100), rotation |-> 0] >>
  /\ wires = << [id |-> 1, a |-> Pt(175, 100), b |-> Pt(225, 100)] >>
  /\ selection = Null /\ mode = "select" /\ wireStart = Null /\ isMouseOverCanvas = TRUE
  /\ previewPos = Pt(100, 100) /\ previewRotation = 0 /\ panDrag = "none"
  /\ rerouteOwnerId = NoId /\ rerouteAttachments = <<>> /\ dragWirePreview = <<>>
  /\ moveDrag = NoDrag
  /\ last = [commit |-> NoCommit, begin |-> NoBegin]
  /\ sess = NoSession

\* At most MaxTurnSteps events are handled.
Turned(S) ==
  /\ lab.fn = "turn" /\ lab.calls < MaxTurnSteps
  /\ lab' = [lab EXCEPT !.calls = lab.calls + 1]
  /\ InstallEditor(S)

TurnPointerDown ==
  \E p \in SelectPts(components, wires) : \E S \in {onPointerDown(Start, 0, p)} : Turned(S)

TurnPointerMove == \E p \in DragPts : \E S \in {onPointerMove(Start, p, FALSE)} : Turned(S)

TurnPointerUp == \E S \in {onPointerUp(Start)} : Turned(S)

TurnRotate == \E S \in {onKeyDown(Start, "r")} : Turned(S)

NextTurn == TurnPointerDown \/ TurnPointerMove \/ TurnPointerUp \/ TurnRotate

SpecTurn == InitTurn /\ [][NextTurn]_vars

\* TwoResistorsOneWire is a state of the editor: Spec reaches it.
LayoutNotReached == ~(lab.fn = "editor" /\ TwoResistorsOneWire)

\* ---------------------------------------------------------------------------
\* Properties of the canonicalizer (SpecNorm)
\* ---------------------------------------------------------------------------

EndsOf(w) == {w.a, w.b}

\* p lies on the closed span of the axis-aligned wire w.
OnWire(p, w) ==
  \/ /\ w.a.x = w.b.x /\ p.x = w.a.x
     /\ p.y >= Min2(w.a.y, w.b.y) /\ p.y <= Max2(w.a.y, w.b.y)
  \/ /\ w.a.y = w.b.y /\ p.y = w.a.y
     /\ p.x >= Min2(w.a.x, w.b.x) /\ p.x <= Max2(w.a.x, w.b.x)

Normalized == lab.fn = "normalize" /\ lab.phase \in {"once", "twice"}

\* C3: normalizing the output of normalize again, with the same extra junction
\* points, yields the same set of segment geometries.
C3_Idempotent ==
  (lab.fn = "normalize" /\ lab.phase = "twice") => Geo(lab.out2) = Geo(lab.out)

C3_Witness ==
  /\ lab.fn = "normalize" /\ lab.phase = "twice"
  /\ lab.E # <<>>
  /\ Geo(lab.out) # Geo(lab.W)
  /\ Len(lab.out) >= 4

\* The two input wires are a horizontal and a vertical one that cross at a
\* point interior to both.
CrossingInput ==
  /\ Len(lab.W) = 2
  /\ \E i, j \in DOMAIN lab.W :
       /\ lab.W[i].a.y = lab.W[i].b.y /\ lab.W[j].a.x = lab.W[j].b.x
       /\ Min2(lab.W[i].a.x, lab.W[i].b.x) < lab.W[j].a.x
       /\ lab.W[j].a.x < Max2(lab.W[i].a.x, lab.W[i].b.x)
       /\ Min2(lab.W[j].a.y, lab.W[j].b.y) < lab.W[i].a.y
       /\ lab.W[i].a.y < Max2(lab.W[j].a.y, lab.W[j].b.y)

CrossingPoint ==
  LET h == CHOOSE i \in DOMAIN lab.W : lab.W[i].a.y = lab.W[i].b.y
      v == CHOOSE j \in DOMAIN lab.W : lab.W[j].a.x = lab.W[j].b.x
  IN Pt(lab.W[v].a.x, lab.W[h].a.y)

\* C4: a point on two distinct output segments is an endpoint of both, no two
\* output segments share a geometry, and two wires crossing at a point
\* interior to both give exactly four segments ending at the crossing.
C4_SharedPointsAreVertices ==
  Normalized =>
    /\ \A i, j \in DOMAIN lab.out : i # j =>
         /\ segmentKey(lab.out[i].a, lab.out[i].b) # segmentKey(lab.out[j].a, lab.out[j].b)
         /\ \A p \in GridPts :
              (OnWire(p, lab.out[i]) /\ OnWire(p, lab.out[j]))
                => (p \in EndsOf(lab.out[i]) /\ p \in EndsOf(lab.out[j]))
    /\ (CrossingInput /\ lab.E = <<>>) =>
         /\ Len(lab.out) = 4
         /\ \A i \in DOMAIN lab.out : CrossingPoint \in EndsOf(lab.out[i])

C4_Witness ==
  /\ Normalized /\ CrossingInput /\ lab.E = <<>> /\ Len(lab.out) = 4

\* C5 as claimed: every extra junction point is an endpoint of some output
\* segment.
C5_EveryExtraIsVertex ==
  Normalized =>
    \A k \in DOMAIN lab.E : \E i \in DOMAIN lab.out : lab.E[k] \in EndsOf(lab.out[i])

\* C5 amended: every extra junction point that lies on some input segment is
\* an endpoint of some output segment.
C5_ExtraOnWireIsVertex ==
  Normalized =>
    \A k \in DOMAIN lab.E :
      (\E i \in DOMAIN lab.W : OnWire(lab.E[k], lab.W[i]))
        => \E i \in DOMAIN lab.out : lab.E[k] \in EndsOf(lab.out[i])

\* An extra point strictly inside one input wire and on no wire's end.
C5_Witness ==
  /\ Normalized /\ lab.E # <<>>
  /\ \E i \in DOMAIN lab.W : OnWire(lab.E[1], lab.W[i])
  /\ \A i \in DOMAIN lab.W : lab.E[1] \notin EndsOf(lab.W[i])
  /\ \E i \in DOMAIN lab.out : lab.E[1] \in EndsOf(lab.out[i])

\* ---------------------------------------------------------------------------
\* Properties of manhattanFromFixed (SpecRoute)
\* ---------------------------------------------------------------------------

Unaligned == lab.fixed.x # lab.target.x /\ lab.fixed.y # lab.target.y

Routed == lab.fn = "route" /\ lab.phase = "done"

\* C6 as claimed: the first leg leaves fixed along incomingAxis.
C6_DepartsAlongAxis ==
  (Routed /\ Unaligned) =>
    LET bend == IF lab.incomingAxis = "h" THEN Pt(lab.target.x, lab.fixed.y)
                ELSE Pt(lab.fixed.x, lab.target.y)
    IN lab.out = << [a |-> lab.fixed, b |-> bend], [a |-> bend, b |-> lab.target] >>

\* C6 amended: the first leg leaves fixed perpendicular to incomingAxis and
\* the last leg reaches the target along incomingAxis.
C6_ArrivesAlongAxis ==
  (Routed /\ Unaligned) =>
    LET bend == IF lab.incomingAxis = "h" THEN Pt(lab.fixed.x, lab.target.y)
                ELSE Pt(lab.target.x, lab.fixed.y)
    IN lab.out = << [a |-> lab.fixed, b |-> bend], [a |-> bend, b |-> lab.target] >>

C6_Witness ==
  /\ Routed /\ Unaligned /\ lab.incomingAxis = "h" /\ Len(lab.out) = 2
  /\ lab.out[1].a.x = lab.out[1].b.x

\* ---------------------------------------------------------------------------
\* Properties of the reroute session (Spec, SpecApi)
\* ---------------------------------------------------------------------------

NonZero(segs) == SelectSeq(segs, LAMBDA sg : ~isDegenerate(sg))

Ends(segs) == {<<segs[i].a, segs[i].b>> : i \in DOMAIN segs}

\* The canonical set that spliceComponents gives for ws plus the non-zero
\* segments of preview, for the components comps.
SplicedWith(ws, preview, comps) ==
  normalizeAndSpliceWires(pushSegments(ws, NonZero(preview), {}), comps,
                          Ids(pushSegments(ws, NonZero(preview), {})))

\* Same geometries and as many segments.
WiresAgree(ws1, ws2) == Geo(ws1) = Geo(ws2) /\ Len(ws1) = Len(ws2)

\* C1: in every step that clears a non-empty preview, changes the owner while
\* the preview is non-empty, or begins a session over a non-empty preview, the
\* preview was committed first: its non-zero segments were appended to the
\* canonical set.
C1_NoDetachedWireLost ==
  [][(/\ dragWirePreview # <<>>
      /\ \/ dragWirePreview' = <<>>
         \/ rerouteOwnerId' # rerouteOwnerId
         \/ last'.begin.called)
       => /\ last'.commit.called
          /\ last'.commit.preview = dragWirePreview
          /\ Ends(NonZero(dragWirePreview)) \subseteq Ends(last'.commit.appended)]_vars

\* The handler committed a session whose owner is still a component.
CommitOfSession ==
  /\ last.commit.called
  /\ last.commit.sess.active
  /\ last.commit.sess.id = last.commit.owner
  /\ hasComponent(last.commit.components, last.commit.owner)

\* Only drag updates happened since begin, and the owner is where it started.
ZeroNetDisplacement ==
  /\ last.commit.sess.pure
  /\ findComponent(last.commit.components, last.commit.owner).pos = last.commit.sess.startPos

\* C2 as claimed: a session with zero net displacement leaves the canonical
\* set with the geometries it had just before begin.
C2_RoundTrip ==
  (CommitOfSession /\ ZeroNetDisplacement)
    => Geo(last.commit.post) = last.commit.sess.startGeo

\* C2 amended: a session with zero net displacement, begun on a canonical set
\* that normalizeWires would leave geometrically unchanged, leaves the
\* canonical set with the geometries it had just before begin.
C2_RoundTripFromNormalForm ==
  (CommitOfSession /\ ZeroNetDisplacement /\ last.commit.sess.startNormal)
    => Geo(last.commit.post) = last.commit.sess.startGeo

\* A session with attached wires whose owner was moved away and back.
C2_Witness ==
  /\ CommitOfSession /\ ZeroNetDisplacement /\ last.commit.sess.startNormal
  /\ last.commit.effective /\ last.commit.sess.moved
  /\ Geo(last.commit.post) = last.commit.sess.startGeo

\* The handler committed the session of one component and began the session
\* of another.
Handoff ==
  /\ last.begin.called /\ last.commit.called
  /\ last.commit.owner # last.begin.id

\* C7: a session begins only when no preview is pending and nobody owns a
\* session; on a handoff from A to B the commit of A's preview (appended and
\* normalized) precedes B's begin, B's attachments are those found on the
\* post-commit canonical set, the owner is B and the preview routes exactly
\* B's attachments; without an owner there is no preview.
C7_HandoffCommitsFirst ==
  /\ last.begin.called =>
       (last.begin.previewBefore = <<>> /\ last.begin.ownerBefore = NoId)
  /\ Handoff =>
       LET B == findComponent(components, last.begin.id)
           found == detachAtPorts(last.commit.post, <<>>, portWorldPositions(B), B, 1)
       IN /\ Ends(NonZero(last.commit.preview)) \subseteq Ends(last.commit.appended)
          /\ last.commit.effective =>
               WiresAgree(last.commit.post,
                          SplicedWith(last.commit.pre, last.commit.preview, components))
          /\ last.begin.seen = last.commit.post
          /\ rerouteOwnerId = last.begin.id
          /\ rerouteAttachments = found.attachments
          /\ wires = found.wires
          /\ dragWirePreview = rebuildReroutePreview(B, rerouteAttachments)
  /\ rerouteOwnerId = NoId => dragWirePreview = <<>>

\* A handoff in which both A and B had a wire attached.
C7_Witness ==
  /\ Handoff /\ last.commit.effective /\ last.commit.owner # NoId
  /\ rerouteAttachments # <<>> /\ dragWirePreview # <<>>
  /\ rerouteOwnerId = last.begin.id

\* The step removes the component that owns the session.
OwnerDeleted ==
  /\ rerouteOwnerId # NoId
  /\ hasComponent(components, rerouteOwnerId)
  /\ ~hasComponent(components', rerouteOwnerId)

\* C8 as claimed: deleting the owner ends the session and leaves the canonical
\* set exactly as it was.
C8_DeletionLeavesWires ==
  [][OwnerDeleted =>
       /\ rerouteOwnerId' = NoId /\ rerouteAttachments' = <<>> /\ dragWirePreview' = <<>>
       /\ wires' = wires]_vars

\* C8 amended: deleting the owner ends the session and commits its preview:
\* the canonical set becomes the spliced set of the old wires plus the
\* preview's non-zero segments, for the components that remain; with an empty
\* preview the canonical set is exactly as it was.
C8_DeletionCommitsPreview ==
  [][OwnerDeleted =>
       /\ rerouteOwnerId' = NoId /\ rerouteAttachments' = <<>> /\ dragWirePreview' = <<>>
       /\ IF dragWirePreview = <<>> THEN wires' = wires
          ELSE WiresAgree(wires', SplicedWith(wires, dragWirePreview, components'))]_vars

\* The owner of a session with a preview was deleted and its wires are back.
C8_Witness ==
  /\ last.commit.called /\ last.commit.effective
  /\ ~hasComponent(last.commit.components, last.commit.owner)
  /\ rerouteOwnerId = NoId /\ rerouteAttachments = <<>> /\ dragWirePreview = <<>>
  /\ Ends(NonZero(last.commit.preview)) \subseteq Ends(wires) \cup {<<e[2], e[1]>> : e \in Ends(wires)}
  /\ wires # last.commit.pre

\* C9 as claimed: every commit of an Attached session replaces the canonical
\* set by the spliced set of the old wires plus the preview's non-zero
\* segments.
C9_CommitSplices ==
  (last.commit.called /\ last.commit.owner # NoId)
    => WiresAgree(last.commit.post,
                  SplicedWith(last.commit.pre, last.commit.preview, last.commit.components))

\* C9 amended: a commit with a non-empty preview replaces the canonical set by
\* the spliced set of the old wires plus the preview's non-zero segments; a
\* commit with an empty preview leaves the canonical set as it is.
C9_CommitSplicesPreview ==
  (last.commit.called /\ last.commit.owner # NoId)
    => IF last.commit.effective
       THEN /\ WiresAgree(last.commit.post,
                          SplicedWith(last.commit.pre, last.commit.preview,
                                      last.commit.components))
            /\ Ends(NonZero(last.commit.preview)) = Ends(last.commit.appended)
       ELSE last.commit.post = last.commit.pre

\* A commit of a preview with a bend, after the owner moved.
C9_Witness ==
  /\ last.commit.called /\ last.commit.owner # NoId /\ last.commit.effective
  /\ last.commit.sess.active /\ last.commit.sess.moved
  /\ Len(last.commit.appended) >= 2
  /\ Geo(last.commit.post) # Geo(last.commit.pre)

\* C10: when a handler has committed and begun no new session, the preview is
\* empty, the attachment list is empty and nobody owns a session.
C10_CommitLeavesIdle ==
  (last.commit.called /\ ~last.begin.called)
    => (dragWirePreview = <<>> /\ rerouteAttachments = <<>> /\ rerouteOwnerId = NoId)

\* The output segments that end at p.
EndingAt(p) == {i \in DOMAIN lab.out : p \in EndsOf(lab.out[i])}

SameAxis(w1, w2) == (w1.a.x = w1.b.x) = (w2.a.x = w2.b.x)

\* C17: two collinear output segments that meet at a point are kept apart by
\* a supplied junction point there or by a third segment ending there; where
\* exactly two segments meet and they are collinear, the point was supplied.
C17_Minimal ==
  Normalized =>
    \A p \in GridPts : \A i, j \in EndingAt(p) :
      (i # j /\ SameAxis(lab.out[i], lab.out[j])) =>
        /\ p \in Range(lab.E) \/ \E k \in EndingAt(p) : ~SameAxis(lab.out[k], lab.out[i])
        /\ Cardinality(EndingAt(p)) = 2 => p \in Range(lab.E)

\* One wire cut in two at a supplied point.
C17_Witness ==
  /\ Normalized /\ Len(lab.W) = 1
  /\ \E p \in Range(lab.E) :
       /\ Cardinality(EndingAt(p)) = 2
       /\ \A i, j \in EndingAt(p) : SameAxis(lab.out[i], lab.out[j])

\* ---------------------------------------------------------------------------
\* Properties of the splice (SpecSplice)
\* ---------------------------------------------------------------------------

SpliceDone == lab.fn = "splice" /\ lab.phase = "done"

\* The two port positions of every component of the input.
LabPorts == [i \in DOMAIN lab.comps |-> portWorldPositions(lab.comps[i])]

\* The normalized wire set: the input cut at junctions and at every port.
NormalizedAtPorts ==
  normalizeAndSegmentWires(lab.W, Flatten([i \in DOMAIN LabPorts |-> LabPorts[i]]), Ids(lab.W))

\* p lies on the line through a and b, strictly between them.
Between(p, a, b) ==
  \/ a.x = b.x /\ p.x = a.x /\ ((a.y < p.y /\ p.y < b.y) \/ (b.y < p.y /\ p.y < a.y))
  \/ a.y = b.y /\ p.y = a.y /\ ((a.x < p.x /\ p.x < b.x) \/ (b.x < p.x /\ p.x < a.x))

\* p lies on the line through a and b, between them or on one of them.
BetweenOrOn(p, a, b) == p = a \/ p = b \/ Between(p, a, b)

\* Some segment end of ws other than the ports a, b lies strictly between them.
ForeignBetween(ws, a, b) ==
  \E i \in DOMAIN ws : \E ep \in {ws[i].a, ws[i].b} : ep # a /\ ep # b /\ Between(ep, a, b)

\* The segment w lies on the line of the ports a, b within the closed span.
WithinSpan(w, a, b) == BetweenOrOn(w.a, a, b) /\ BetweenOrOn(w.b, a, b)

Seg(ax, ay, bx, by) == [id |-> 0, a |-> Pt(ax, ay), b |-> Pt(bx, by)]

OneResistor == Len(lab.comps) = 1 /\ LabPorts[1] = << Pt(0, 0), Pt(2 * PortStep, 0) >>

TJunctionInput ==
  /\ OneResistor
  /\ Geo(lab.W) = Geo(<< Seg(0, 0, 2 * PortStep, 0), Seg(PortStep, 0, PortStep, PortStep) >>)

\* C14: when a segment end other than the two ports lies strictly between the
\* ports of a component in the normalized wire set, every normalized segment
\* within that component's span is still in the output; the span with a
\* T-junction in its middle comes out as its two halves and the stem.
C14_SpliceAbortsAtJunction ==
  SpliceDone =>
    /\ \A c \in DOMAIN LabPorts :
         ForeignBetween(NormalizedAtPorts, LabPorts[c][1], LabPorts[c][2]) =>
           \A i \in DOMAIN NormalizedAtPorts :
             WithinSpan(NormalizedAtPorts[i], LabPorts[c][1], LabPorts[c][2]) =>
               segmentKey(NormalizedAtPorts[i].a, NormalizedAtPorts[i].b) \in Geo(lab.out)
    /\ TJunctionInput =>
         /\ Len(lab.out) = 3
         /\ Geo(lab.out) = Geo(<< Seg(0, 0, PortStep, 0), Seg(PortStep, 0, 2 * PortStep, 0),
                                  Seg(PortStep, 0, PortStep, PortStep) >>)

C14_Witness == SpliceDone /\ TJunctionInput /\ Len(lab.out) = 3

\* C15: when no segment end other than the two ports lies strictly between
\* the ports of a component in the normalized wire set, no output segment
\* lies within that component's closed span; a lone wire from port to port
\* leaves no wire.
C15_FullSplice ==
  SpliceDone =>
    /\ \A c \in DOMAIN LabPorts :
         ~ForeignBetween(NormalizedAtPorts, LabPorts[c][1], LabPorts[c][2]) =>
           \A i \in DOMAIN lab.out :
             ~WithinSpan(lab.out[i], LabPorts[c][1], LabPorts[c][2])
    /\ (OneResistor /\ Geo(lab.W) = Geo(<< Seg(0, 0, 2 * PortStep, 0) >>)) => lab.out = <<>>

C15_Witness ==
  /\ SpliceDone /\ OneResistor
  /\ Geo(lab.W) = Geo(<< Seg(0, 0, 2 * PortStep, 0) >>) /\ lab.out = <<>>

\* C16: no port of a component lies strictly inside an output segment.
C16_CutAtEveryPort ==
  SpliceDone =>
    \A c \in DOMAIN LabPorts : \A k \in DOMAIN LabPorts[c] : \A i \in DOMAIN lab.out :
      ~Between(LabPorts[c][k], lab.out[i].a, lab.out[i].b)

\* A port inside an input wire is an end of an output segment, and the span
\* of no component was deleted.
C16_Witness ==
  /\ SpliceDone /\ Len(lab.out) >= 3
  /\ Geo(lab.out) = Geo(NormalizedAtPorts)
  /\ \E c \in DOMAIN LabPorts : \E k \in DOMAIN LabPorts[c] :
       /\ \E i \in DOMAIN lab.W : Between(LabPorts[c][k], lab.W[i].a, lab.W[i].b)
       /\ \E i \in DOMAIN lab.out : LabPorts[c][k] \in {lab.out[i].a, lab.out[i].b}

\* ---------------------------------------------------------------------------
\* Properties of begin, drag updates and release (Spec, SpecApi)
\* ---------------------------------------------------------------------------

\* The handler began a session for a component.
BeganSession == last.begin.called /\ hasComponent(components, last.begin.id)

\* The attachments the claim allows for a wire w of a component at pos with
\* port positions P: one per end of w that is on a port.
AttachmentsFor(w, P, pos) ==
  {[fixed |-> IF w.a = port THEN w.b ELSE w.a,
    incomingAxis |-> IF w.a.y = w.b.y THEN "h" ELSE "v",
    portOffset |-> Pt(port.x - pos.x, port.y - pos.y)] : port \in P \cap {w.a, w.b}}

\* C11: a session begun from Idle has removed from the canonical set exactly
\* the segments with an end on a port of the component, left the others as
\* they were, recorded one attachment per removed segment (fixed end,
\* orientation, port offset) and made the component the owner.
C11_BeginDetachesAtPorts ==
  BeganSession =>
    LET inst == findComponent(components, last.begin.id)
        P == Range(portWorldPositions(inst))
        seen == last.begin.seen
        touching == {i \in DOMAIN seen : P \cap {seen[i].a, seen[i].b} # {}}
    IN /\ last.begin.ownerBefore = NoId /\ last.begin.previewBefore = <<>>
       /\ wires = SelectSeq(seen, LAMBDA w : P \cap {w.a, w.b} = {})
       /\ Len(rerouteAttachments) = Cardinality(touching)
       /\ \A i \in touching : \E k \in DOMAIN rerouteAttachments :
            rerouteAttachments[k] \in AttachmentsFor(seen[i], P, inst.pos)
       /\ \A k \in DOMAIN rerouteAttachments : \E i \in touching :
            rerouteAttachments[k] \in AttachmentsFor(seen[i], P, inst.pos)
       /\ rerouteOwnerId = last.begin.id

\* A begin that detached a wire and left another.
C11_Witness ==
  /\ BeganSession /\ rerouteAttachments # <<>> /\ wires # <<>>
  /\ Len(last.begin.seen) = Len(wires) + Len(rerouteAttachments)

\* C12: beginRerouteForSelectedComponent called for the component that owns
\* the session changes neither the canonical set, the attachments, the
\* preview nor the owner.
C12_BeginByOwnerIsNoOp ==
  [][(rerouteOwnerId # NoId /\ last'.begin.called /\ last'.begin.id = rerouteOwnerId)
       => /\ wires' = wires
          /\ rerouteAttachments' = rerouteAttachments
          /\ dragWirePreview' = dragWirePreview
          /\ rerouteOwnerId' = rerouteOwnerId]_vars

\* The pointer is released on an active drag of the session's owner.
ReleaseOfDrag ==
  /\ PointerUp
  /\ panDrag = "none" /\ moveDrag.id # NoId /\ rerouteOwnerId = moveDrag.id

\* C13 as claimed: releasing the pointer on an active drag commits the
\* session's preview and leaves the session Idle.
C13_ReleaseCommits ==
  [][ReleaseOfDrag =>
       /\ last'.commit.called
       /\ rerouteOwnerId' = NoId /\ dragWirePreview' = <<>>]_vars

\* C13 amended: releasing the pointer ends the drag only, the session stays
\* Attached with nothing committed; a session goes Idle only in a step that
\* commits its preview.
C13_ReleaseKeepsSession ==
  /\ [][ReleaseOfDrag =>
          /\ moveDrag' = NoDrag /\ ~last'.commit.called
          /\ UNCHANGED <<components, wires, selection, rerouteOwnerId,
                         rerouteAttachments, dragWirePreview>>]_vars
  /\ [][(rerouteOwnerId # NoId /\ rerouteOwnerId' = NoId) =>
          /\ last'.commit.called /\ last'.commit.preview = dragWirePreview
          /\ Ends(NonZero(dragWirePreview)) \subseteq Ends(last'.commit.appended)]_vars

\* After the release of a drag that moved the owner: no drag, the session
\* still Attached with its preview.
C13_Witness ==
  /\ moveDrag = NoDrag /\ panDrag = "none"
  /\ rerouteOwnerId # NoId /\ dragWirePreview # <<>>
  /\ sess.active /\ sess.moved /\ ~last.commit.called

\* C18: while a component owns the session the preview is the concatenation,
\* over the attachments in order, of the routes from each fixed end to the
\* owner's position plus the port offset.
C18_PreviewFromAttachments ==
  (rerouteOwnerId # NoId /\ hasComponent(components, rerouteOwnerId)) =>
    LET pos == findComponent(components, rerouteOwnerId).pos
    IN dragWirePreview =
         Flatten([k \in DOMAIN rerouteAttachments |->
                    manhattanFromFixed(rerouteAttachments[k].fixed,
                                       Pt(pos.x + rerouteAttachments[k].portOffset.x,
                                          pos.y + rerouteAttachments[k].portOffset.y),
                                       rerouteAttachments[k].incomingAxis)])

\* The owner was moved twice and its wire is routed with a bend.
C18_Witness ==
  /\ rerouteOwnerId # NoId /\ hasComponent(components, rerouteOwnerId)
  /\ sess.active /\ sess.moved /\ lab.moves = MaxMoves
  /\ rerouteAttachments # <<>> /\ Len(dragWirePreview) >= 2
  /\ findComponent(components, rerouteOwnerId).pos # sess.startPos

\* The drag would put the component at a snapped position outside the canvas.
Rejected(p) ==
  /\ panDrag = "none" /\ ~isPlaceMode(mode)
  /\ moveDrag.id # NoId /\ hasComponent(components, moveDrag.id)
  /\ ~isInsideCanvas(snap(Pt(p.x + moveDrag.offset.x, p.y + moveDrag.offset.y)))

\* The step is the pointermove handler run with the pointer at p.
PointerMovedTo(p) == \E S \in {onPointerMove(Start, p, FALSE)} : InstallEditor(S)

\* C19: a drag update whose snapped position is outside the canvas changes
\* neither the component's position, the preview, the attachments nor the
\* canonical set.
C19_RejectedUpdateChangesNothing ==
  [][\A p \in DragPts :
       (Rejected(p) /\ PointerMovedTo(p)) =>
          UNCHANGED <<components, dragWirePreview, rerouteAttachments, wires,
                      rerouteOwnerId, moveDrag>>]_vars

\* A drag of the owner, moved once with a wire attached, for which the point
\* outside the canvas is rejected.
C19_Witness ==
  /\ Rejected(OutsidePt) /\ rerouteOwnerId = moveDrag.id
  /\ dragWirePreview # <<>> /\ sess.moved /\ lab.moves < MaxMoves

\* C20: a pointermove changes neither the canonical set nor the attachments,
\* and while a component owns the session they change only in a step that
\* commits or begins.
C20_UpdatesLeaveCanonicalSet ==
  /\ [][PointerMove => (wires' = wires /\ rerouteAttachments' = rerouteAttachments)]_vars
  /\ [][(rerouteOwnerId # NoId
           /\ (wires' # wires \/ rerouteAttachments' # rerouteAttachments))
          => (last'.commit.called \/ last'.begin.called)]_vars

\* An Attached session whose owner was moved: the canonical set is what it
\* was before begin less the detached segments.
C20_Witness ==
  /\ rerouteOwnerId # NoId /\ sess.active /\ sess.moved /\ sess.id = rerouteOwnerId
  /\ rerouteAttachments # <<>> /\ wires # <<>>
  /\ Geo(wires) \subseteq sess.startGeo /\ Geo(wires) # sess.startGeo

\* ---------------------------------------------------------------------------
\* Properties of operations on missing components (SpecRace)
\* ---------------------------------------------------------------------------

\* The step is a begin or startDrag for an id that names no component.
OnMissingId == lab'.op \in {"begin", "startDrag"} /\ ~hasComponent(components, lab'.id)

\* The step is an updateDrag or pointerup after the dragged component was
\* deleted.
AfterDeletion == lab'.op \in {"updateDrag", "pointerup"} /\ lab.deleted # NoId

\* C21: a begin or startDrag for a missing id, and an updateDrag or pointerup
\* after the dragged component was deleted, change neither the canonical
\* wires, the owner, the attachments, the preview nor the drag state.
C21_MissingEntityIsNoOp ==
  [][(OnMissingId \/ AfterDeletion) =>
       UNCHANGED <<components, wires, rerouteOwnerId, rerouteAttachments,
                   dragWirePreview, moveDrag>>]_vars

\* A begin or startDrag for a missing id ran on a session with a preview, and
\* later the dragged component was deleted and an updateDrag or pointerup ran.
C21_Witness ==
  /\ lab.fn = "race" /\ lab.missing /\ lab.stale /\ lab.deleted # NoId
  /\ ~hasComponent(components, lab.deleted)

\* ---------------------------------------------------------------------------
\* Properties of a session without attachments (Spec)
\* ---------------------------------------------------------------------------

\* The session under way was begun for a component none of whose ports was on
\* a wire end.
FreeSession == sess.active /\ sess.free /\ rerouteOwnerId = sess.id

\* The handler committed such a session.
FreeCommit ==
  /\ last.commit.called /\ last.commit.sess.active /\ last.commit.sess.free
  /\ last.commit.owner = last.commit.sess.id

\* C22: a session begun for a component with no port on a wire end has no
\* attachments and no preview while it lasts, leaves the canonical wires as
\* they were at begin and its commit leaves them as they were.
C22_FreeSessionMovesOnly ==
  /\ FreeSession =>
       /\ rerouteAttachments = <<>> /\ dragWirePreview = <<>>
       /\ Geo(wires) = sess.startGeo /\ Len(wires) = Cardinality(sess.startGeo)
  /\ FreeCommit =>
       /\ last.commit.preview = <<>> /\ last.commit.appended = <<>>
       /\ last.commit.post = last.commit.pre
       /\ Geo(last.commit.pre) = last.commit.sess.startGeo

\* The commit of a session that moved a component with no wire at its ports
\* while a wire was on the canvas.
C22_Witness ==
  /\ FreeCommit /\ last.commit.sess.moved /\ last.commit.pre # <<>>
  /\ rerouteOwnerId # last.commit.owner

\* ---------------------------------------------------------------------------
\* Properties of normalizeAndSegmentWires on raw inputs (SpecRaw)
\* ---------------------------------------------------------------------------

RawDone == lab.fn = "raw" /\ lab.phase # "input"

\* The ends of w differ in both x and y.
Diagonal(w) == w.a.x # w.b.x /\ w.a.y # w.b.y

HasDiagonal(ws) == \E i \in DOMAIN ws : Diagonal(ws[i])

\* C23: normalize fails and returns no segment exactly when some input
\* segment's ends differ in both x and y; otherwise every output segment is
\* axis-aligned and lies on input segments (nothing is coerced).
C23_DiagonalInputFails ==
  RawDone =>
    /\ lab.threw <=> HasDiagonal(lab.W)
    /\ lab.threw => lab.out = <<>>
    /\ ~lab.threw =>
         \A i \in DOMAIN lab.out :
           /\ ~Diagonal(lab.out[i])
           /\ \E j \in DOMAIN lab.W :
                \E k \in DOMAIN lab.W :
                  /\ OnWire(lab.out[i].a, lab.W[j]) /\ OnWire(lab.out[i].b, lab.W[k])

\* A call that failed on a list whose first segment is axis-aligned and whose
\* second is diagonal.
C23_Witness ==
  /\ RawDone /\ lab.threw /\ Len(lab.W) = 2
  /\ ~Diagonal(lab.W[1]) /\ lab.W[1].a # lab.W[1].b /\ Diagonal(lab.W[2])

\* ---------------------------------------------------------------------------
\* Shape of the canonical wires (Spec)
\* ---------------------------------------------------------------------------

\* The ends of w differ in exactly one coordinate.
AxisAlignedNonZero(w) == (w.a.x = w.b.x) # (w.a.y = w.b.y)

\* C24: in every state of the editor every segment of state.wires is
\* axis-aligned and has non-zero length.
C24_CanonicalSegmentsWellFormed ==
  \A i \in DOMAIN wires : AxisAlignedNonZero(wires[i])

\* A commit put a route with a bend into state.wires: a horizontal and a
\* vertical segment that share an end.
C24_Witness ==
  /\ lab.fn = "editor" /\ last.commit.called /\ last.commit.effective
  /\ \E i \in DOMAIN wires : \E j \in DOMAIN wires :
       /\ wires[i].a.y = wires[i].b.y /\ wires[j].a.x = wires[j].b.x
       /\ EndsOf(wires[i]) \cap EndsOf(wires[j]) # {}

\* ---------------------------------------------------------------------------
\* Collinear merge (SpecRaw)
\* ---------------------------------------------------------------------------

\* The segments of ws that have a length.
Proper(ws) == SelectSeq(ws, LAMBDA w : w.a # w.b)

\* No extra junction points, and every segment with a length lies on one
\* line: no diagonal, one axis, one constant coordinate.
OnOneLine ==
  /\ lab.E = <<>> /\ ~HasDiagonal(lab.W) /\ Proper(lab.W) # <<>>
  /\ \A g \in Geo(Proper(lab.W)) : \A h \in Geo(Proper(lab.W)) :
       g.axis = h.axis /\ g.c = h.c

\* The unit interval [k, k+1] of the line is covered by an input segment.
CoveredUnit(k) == \E g \in Geo(Proper(lab.W)) : g.lo <= k /\ k + 1 <= g.hi

\* [lo, hi] is a maximal covered stretch of the line: the union of a maximal
\* group of input segments that overlap or touch end to end.
MaximalStretch(lo, hi) ==
  /\ lo < hi
  /\ \A k \in lo..(hi - 1) : CoveredUnit(k)
  /\ ~CoveredUnit(lo - 1) /\ ~CoveredUnit(hi)

\* C25: segments of one line, with no extra junction points, are mapped to
\* exactly one segment per maximal group of overlapping or touching segments,
\* from the group's minimum to its maximum; groups with a gap stay separate.
C25_CollinearMerge ==
  (RawDone /\ OnOneLine) =>
    /\ ~lab.threw
    /\ Len(lab.out) = Cardinality(Geo(lab.out))
    /\ Geo(lab.out) =
         {[axis |-> g.axis, c |-> g.c, lo |-> lo, hi |-> hi] :
            <<g, lo, hi>> \in {t \in Geo(Proper(lab.W)) \X (0..LineMax) \X (0..LineMax) :
                                 MaximalStretch(t[2], t[3])}}

\* The segments [0,2], [1,3] and [3,4] of the line y = 0, given in another
\* order, merged into the one segment (0,0)-(4,0).
C25_Witness ==
  /\ RawDone /\ OnOneLine /\ Len(lab.W) = 3
  /\ Geo(lab.W) = {segmentKey(Pt(1, 0), Pt(3, 0)), segmentKey(Pt(3, 0), Pt(4, 0)),
                   segmentKey(Pt(0, 0), Pt(2, 0))}
  /\ segmentKey(lab.W[1].a, lab.W[1].b) = segmentKey(Pt(1, 0), Pt(3, 0))
  /\ Geo(lab.out) = {segmentKey(Pt(0, 0), Pt(4, 0))} /\ Len(lab.out) = 1

\* ---------------------------------------------------------------------------
\* Identity of the canonical segments (SpecSplice)
\* ---------------------------------------------------------------------------

\* C26: no segment returned by normalizeAndSpliceWires (normalize, then the
\* splices) carries the id of an input segment, and the ids of the output are
\* pairwise distinct.
C26_IdsAreReassigned ==
  SpliceDone =>
    /\ Ids(lab.out) \cap Ids(lab.W) = {}
    /\ Cardinality(Ids(lab.out)) = Len(lab.out)

\* An output of two or more segments, one of them with the geometry of an
\* input segment.
C26_Witness ==
  /\ SpliceDone /\ Len(lab.out) >= 2
  /\ Geo(lab.out) \cap Geo(lab.W) # {} /\ Geo(lab.out) # Geo(lab.W)

\* ---------------------------------------------------------------------------
\* normalizeAndSegmentWires as a function of geometry (SpecRaw)
\* ---------------------------------------------------------------------------

RawTwice == lab.fn = "raw" /\ lab.phase = "again"

\* The unordered pairs of ends of a wire list.
Pairs(ws) == {EndsOf(ws[i]) : i \in DOMAIN ws}

\* C27: the geometries returned depend only on the set of input segments and
\* the set of extra junction points: the same segments given once each, lower
\* end first, in a fixed order and with other ids, with the extra points once
\* each in a fixed order, give the same set of geometries; no geometry is
\* returned twice.
C27_FunctionOfGeometry ==
  RawTwice =>
    /\ Pairs(sameGeometry(lab.W)) = Pairs(lab.W)
    /\ Geo(lab.out) = Geo(lab.out2)
    /\ Len(lab.out) = Cardinality(Geo(lab.out))
    /\ Len(lab.out2) = Len(lab.out)

\* An input with a pair given twice (once reversed) and out of order, with
\* extra points given out of order, that produced two or more segments.
C27_Witness ==
  /\ RawTwice /\ Len(lab.W) = 2 /\ Len(lab.out) >= 2 /\ Len(lab.E) = 2
  /\ lab.W[1].a = lab.W[2].b /\ lab.W[1].b = lab.W[2].a
  /\ pointRank(lab.W[1].a) > pointRank(lab.W[1].b)
  /\ pointsInOrder(Range(lab.E)) # lab.E

\* ---------------------------------------------------------------------------
\* Components without exactly two ports (SpecSkip)
\* ---------------------------------------------------------------------------

SkipDone == lab.fn = "skip" /\ lab.phase = "done"

\* The components of the list whose type has exactly two ports.
TwoPortOnly(comps) == SelectSeq(comps, LAMBDA inst : Len(ports(inst.typeId)) = 2)

\* The ports of the components of the list whose type has not two ports.
OtherPorts(comps) ==
  UNION {Range(portWorldPositions(comps[i])) :
           i \in {j \in DOMAIN comps : Len(ports(comps[j].typeId)) # 2}}

\* C28: the result of normalizeAndSpliceWires is the result it gives when the
\* components without exactly two ports are removed from the list.
C28_OtherPortCountsIgnored ==
  SkipDone =>
    lab.out = normalizeAndSpliceWires(lab.W, TwoPortOnly(lab.comps), Ids(lab.W))

\* A port of a one-port or three-port component lies strictly inside an
\* output segment: the wire was not cut there.
C28_Witness ==
  /\ SkipDone /\ TwoPortOnly(lab.comps) # lab.comps
  /\ \E p \in OtherPorts(lab.comps) : \E i \in DOMAIN lab.out :
       Between(p, lab.out[i].a, lab.out[i].b)

\* ---------------------------------------------------------------------------
\* Properties of manhattanSegments and rotatePoint (SpecGeom)
\* ---------------------------------------------------------------------------

FreeformRouted == lab.fn = "geom" /\ lab.phase = "routed"

\* C29: manhattanSegments(a, b) is the single segment [a, b] when a and b
\* share a coordinate, and otherwise the segment from a to (b.x, a.y) followed
\* by the segment from (b.x, a.y) to b; the path is axis-aligned, connected,
\* starts at a and ends at b.
C29_FreeformRoute ==
  FreeformRouted =>
    LET a == lab.a
        b == lab.b
        out == lab.out
    IN /\ (a.x = b.x \/ a.y = b.y) => out = << [a |-> a, b |-> b] >>
       /\ (a.x # b.x /\ a.y # b.y) =>
            /\ out = << [a |-> a, b |-> Pt(b.x, a.y)], [a |-> Pt(b.x, a.y), b |-> b] >>
            /\ out[1].a.y = out[1].b.y /\ out[2].a.x = out[2].b.x
       /\ out # <<>> /\ out[1].a = a /\ out[Len(out)].b = b
       /\ \A i \in DOMAIN out : out[i].a.x = out[i].b.x \/ out[i].a.y = out[i].b.y
       /\ \A i \in 1..(Len(out) - 1) : out[i].b = out[i + 1].a

\* A route between two points that share no coordinate: two segments.
C29_Witness ==
  /\ FreeformRouted /\ lab.a.x # lab.b.x /\ lab.a.y # lab.b.y /\ Len(lab.out) = 2

\* C30: rotating by r1 and then by r2 is rotating by (r1 + r2) mod 360,
\* rotating by 0 gives the point itself, and four rotations by 90 in a row
\* give the point back.
C30_QuarterTurnsCompose ==
  /\ (lab.fn = "geom" /\ lab.phase = "rotated" /\ lab.r1 = 0) => lab.q = lab.a
  /\ (lab.fn = "geom" /\ lab.phase = "rotated2") =>
       lab.q2 = rotatePoint(lab.a, (lab.r1 + lab.r2) % 360)
  /\ (lab.fn = "geom" /\ lab.phase = "turning" /\ lab.turns = 4) => lab.t = lab.a

\* A point off both axes and off the diagonals turned by 270 and then by 180:
\* the turn by 90.
C30_Witness ==
  /\ lab.fn = "geom" /\ lab.phase = "rotated2" /\ lab.r1 = 270 /\ lab.r2 = 180
  /\ lab.a.x # 0 /\ lab.a.y # 0 /\ Abs(lab.a.x) # Abs(lab.a.y)
  /\ lab.q2 = Pt(-lab.a.y, lab.a.x)

\* ---------------------------------------------------------------------------
\* Wires of a committed session (Spec)
\* ---------------------------------------------------------------------------

\* The handler committed a session with a preview and its owner is still a
\* component.
CommittedForOwner ==
  /\ lab.fn = "editor" /\ last.commit.called /\ last.commit.effective
  /\ hasComponent(last.commit.components, last.commit.owner)
  /\ hasComponent(components, last.commit.owner)

\* The position at the commit of the port an attachment was detached from.
PortAtCommit(att) ==
  LET pos == findComponent(last.commit.components, last.commit.owner).pos
  IN Pt(pos.x + att.portOffset.x, pos.y + att.portOffset.y)

\* Some segment of ws has an end at p.
EndAt(ws, p) == \E i \in DOMAIN ws : p \in EndsOf(ws[i])

\* C31: after the commit of a session whose owner still exists, for every
\* attachment whose fixed end is not at its port, the canonical wires hold a
\* segment that ends at the port and a segment that ends at the fixed end.
C31_WireStaysOnPort ==
  CommittedForOwner =>
    \A k \in DOMAIN last.commit.attachments :
      LET att == last.commit.attachments[k]
      IN att.fixed # PortAtCommit(att) =>
           /\ EndAt(last.commit.post, PortAtCommit(att))
           /\ EndAt(last.commit.post, att.fixed)

\* ---------------------------------------------------------------------------
\* The selection and the canonical wires (Spec)
\* ---------------------------------------------------------------------------

\* C32: whenever the selection is a wire, its id is the id of a segment of
\* state.wires.
C32_SelectedWireExists ==
  selection.kind = "wire" => selection.id \in Ids(wires)

\* ---------------------------------------------------------------------------
\* The preview and the owner's ports
\* ---------------------------------------------------------------------------

\* An Attached session: an owner that is in the component list.
Attached == rerouteOwnerId # NoId /\ hasComponent(components, rerouteOwnerId)

\* The world positions of the owner's ports, per portWorldPositions.
OwnerPorts ==
  LET ps == portWorldPositions(findComponent(components, rerouteOwnerId))
  IN {ps[k] : k \in DOMAIN ps}

\* The preview holds a path from the attachment's fixed end to q (an empty
\* path when the two coincide).
PreviewReaches(att, q) ==
  \/ att.fixed = q
  \/ EndAt(dragWirePreview, att.fixed) /\ EndAt(dragWirePreview, q)

\* C33: in every Attached state the preview path of each attachment ends at
\* the current world position of a port of the owner.
C33_PreviewEndsAtPort ==
  Attached =>
    \A k \in DOMAIN rerouteAttachments :
      \E q \in OwnerPorts : PreviewReaches(rerouteAttachments[k], q)

\* ---------------------------------------------------------------------------
\* What the splice deletes (SpecSplice)
\* ---------------------------------------------------------------------------

\* The wire w is a member of the list ws, id and ends included.
InList(w, ws) == \E i \in DOMAIN ws : ws[i] = w

\* The wire w joins the two ports of an axis-aligned two-port component.
JoinsPortPair(w) ==
  \E c \in DOMAIN LabPorts :
    /\ Len(LabPorts[c]) = 2
    /\ LabPorts[c][1].x = LabPorts[c][2].x \/ LabPorts[c][1].y = LabPorts[c][2].y
    /\ EndsOf(w) = {LabPorts[c][1], LabPorts[c][2]}

RawGrid == {Pt(cx, cy) : cx \in 0..LineMax, cy \in 0..1}

\* The grid points that lie on some segment of ws.
Covered(ws) == {p \in RawGrid : \E i \in DOMAIN ws : OnWire(p, ws[i])}

\* C35: the grid points on some output segment of normalize are the grid
\* points on some input segment of non-zero length.
C35_CoveragePreserved ==
  (RawDone /\ ~lab.threw) => Covered(lab.out) = Covered(Proper(lab.W))

\* A normalize of two separate segments and a point given as a segment in the
\* gap between them: the output has two segments and the point is off them.
C35_Witness ==
  /\ RawDone /\ ~lab.threw
  /\ Len(lab.W) = 3 /\ Len(Proper(lab.W)) = 2 /\ Len(lab.out) = 2
  /\ \E i \in DOMAIN lab.W : lab.W[i].a = lab.W[i].b /\ lab.W[i].a \notin Covered(lab.out)

\* ---------------------------------------------------------------------------
\* The geometry at the begin of a session
\* ---------------------------------------------------------------------------

\* The handler of this step ran beginRerouteForSelectedComponent for a
\* component of the list.
BeginRan == last.begin.called /\ hasComponent(components, last.begin.id)

\* The port of the begun component that the attachment was taken from.
PortAtBegin(att) ==
  LET pos == findComponent(components, last.begin.id).pos
  IN Pt(pos.x + att.portOffset.x, pos.y + att.portOffset.y)

\* C36: right after begin the preview of each attachment is the single segment
\* from its fixed end to its port, and the geometries of the canonical wires
\* and the preview together are those of the canonical wires before begin.
C36_BeginConservesGeometry ==
  BeginRan =>
    /\ Len(dragWirePreview) = Len(rerouteAttachments)
    /\ \A k \in DOMAIN rerouteAttachments :
         /\ k \in DOMAIN dragWirePreview
         /\ dragWirePreview[k].a = rerouteAttachments[k].fixed
         /\ dragWirePreview[k].b = PortAtBegin(rerouteAttachments[k])
    /\ Geo(wires) \cup Geo(dragWirePreview) = Geo(last.begin.seen)

\* A begin that detached the wire on a port and left another wire in place.
C36_Witness ==
  /\ BeginRan /\ Len(rerouteAttachments) = 1 /\ wires # <<>>
  /\ Geo(last.begin.seen) # Geo(wires)

\* ---------------------------------------------------------------------------
\* The order of the components (SpecSplice)
\* ---------------------------------------------------------------------------

\* The component list in the opposite order.
Backwards(comps) == [i \in DOMAIN comps |-> comps[Len(comps) + 1 - i]]

\* C37: normalizeAndSpliceWires yields the same set of segment geometries for
\* the components in the opposite order.
C37_ComponentOrderIrrelevant ==
  SpliceDone =>
    Geo(lab.out) = Geo(normalizeAndSpliceWires(lab.W, Backwards(lab.comps), Ids(lab.W)))

\* Two components that each had the segment between their ports deleted, with
\* a segment left.
C37_Witness ==
  /\ SpliceDone /\ Len(lab.comps) = 2 /\ lab.out # <<>>
  /\ Len(NormalizedAtPorts) = Len(lab.out) + 2

\* ---------------------------------------------------------------------------
\* Sessions and modes (Spec)
\* ---------------------------------------------------------------------------

\* C38: whenever the mode is wire or a placement mode there is no session
\* owner and no move drag, and the attachment list and the preview are empty.
C38_SessionOnlyInSelectMode ==
  (lab.fn = "editor" /\ ~isSelectMode(mode)) =>
    /\ rerouteOwnerId = NoId
    /\ moveDrag = NoDrag
    /\ rerouteAttachments = <<>>
    /\ dragWirePreview = <<>>

\* A change to wire or placement mode that committed a session with a preview.
C38_Witness ==
  /\ lab.fn = "editor" /\ ~isSelectMode(mode)
  /\ last.commit.called /\ last.commit.effective
  /\ last.commit.owner # NoId /\ last.commit.preview # <<>>

====
